---- MODULE Spec2Model ----
(***************************************************************************)
(* A model of cfx-types-generator: the Lua scanner (LuaParser), the        *)
(* per-resource export collector (TypeGenerator) and the state aggregator  *)
(* (GlobalStateGenerator / StateBagGenerator).                             *)
(*                                                                         *)
(* Text is modelled as a sequence of one-character strings, so that the    *)
(* string tests of the source (trim, startsWith, includes, the regular     *)
(* expressions) are computed on characters.                                *)
(***************************************************************************)
EXTENDS Integers, Sequences, FiniteSets, TLC

VARIABLES
    \* ---- the state aggregator (src/README.md:169-431)
    globalStates,       \* this.globalStates: entries in insertion order
    playerStates,       \* this.playerStates
    localPlayerStates,  \* this.localPlayerStates
    allStates,          \* the merged per-entity view built by generateStateFile
    generated,          \* whether generateStateFile has run on the current maps
    calls,              \* how many add calls have been made
    seen,               \* history: <<container, name, type>> of every observation
    revisited,          \* history: <<container, name>> observed again after two of
                        \* its observations had disagreed on the type
    keepLog,            \* whether the add calls are recorded in log
    log,                \* history: the add calls made, in order
    \* ---- one call of a function of the scanner on a text
    fnArg,              \* the text the function is applied to
    fnOut,              \* what it returned
    fnDone,             \* whether it has returned
    \* ---- one run of LuaParser.parse and of the definitions made from it
    given,              \* history: the file as the items its lines were written from
    scanLines,          \* lines: content.split('\n')
    scanPath,           \* filePath: the path parse was given
    scanContext,        \* context: detectContext(filePath)
    idx,                \* the loop index i of parse
    exports,            \* this.exports
    merged,             \* the merged parameters of each export, once generated
    pc,                 \* where the run is: "idle", "scan", "returned", "generated"
    \* ---- the driver's loop over the input files (src/src/index.js:117-192)
    generators,         \* resourceGenerators: unit name -> its TypeGenerator
    luaFiles,           \* luaFiles: the input files, in the order they are visited
    fileIdx,            \* how many files the loop has finished with
    dpc,                \* where the loop body is for the current file
    scanned,            \* the three scan results of the current file
    totals,             \* totalExports, totalGlobalStates, totalPlayerStates,
                        \* totalLocalPlayerStates
    reported,           \* history: the paths console.error reported, in order
    \* ---- scans running on one parser instance
    scans               \* per scan: its lines, its path, its loop index, its result

aggVars == <<globalStates, playerStates, localPlayerStates, allStates,
             generated, calls, seen, revisited, keepLog, log>>

fnVars == <<fnArg, fnOut, fnDone>>

scanVars == <<given, scanLines, scanPath, scanContext, idx, exports, merged, pc>>

drvVars == <<generators, luaFiles, fileIdx, dpc, scanned, totals, reported, scans>>

vars == <<aggVars, fnVars, scanVars, drvVars>>

-----------------------------------------------------------------------------
(* Characters and the string methods of JavaScript used by the source.     *)

Digits == {"0","1","2","3","4","5","6","7","8","9"}

LowerLetters == {"a","b","c","d","e","f","g","h","i","j","k","l","m",
                 "n","o","p","q","r","s","t","u","v","w","x","y","z"}

UpperLetters == {"A","B","C","D","E","F","G","H","I","J","K","L","M",
                 "N","O","P","Q","R","S","T","U","V","W","X","Y","Z"}

UpperSeq == <<"A","B","C","D","E","F","G","H","I","J","K","L","M",
              "N","O","P","Q","R","S","T","U","V","W","X","Y","Z">>

LowerSeq == <<"a","b","c","d","e","f","g","h","i","j","k","l","m",
              "n","o","p","q","r","s","t","u","v","w","x","y","z">>

\* s.toLowerCase()
ToLowerCase(s) ==
    [k \in 1..Len(s) |->
        IF s[k] \in UpperLetters
        THEN LowerSeq[CHOOSE i \in 1..26 : UpperSeq[i] = s[k]]
        ELSE s[k]]

\* \w of a JavaScript regular expression
WordChars == LowerLetters \cup UpperLetters \cup Digits \cup {"_"}

\* \s of a JavaScript regular expression, and what trim() removes
SpaceChars == {" ", "\t", "\r", "\n"}

\* s.startsWith(p)
StartsWith(s, p) ==
    /\ Len(s) >= Len(p)
    /\ \A k \in 1..Len(p) : s[k] = p[k]

\* s.endsWith(p)
EndsWith(s, p) ==
    /\ Len(s) >= Len(p)
    /\ \A k \in 1..Len(p) : s[Len(s) - Len(p) + k] = p[k]

\* whether p occurs in s at (1-based) position k
OccursAt(s, p, k) ==
    /\ k + Len(p) - 1 <= Len(s)
    /\ \A j \in 1..Len(p) : s[k + j - 1] = p[j]

\* s.indexOf(p) as a 1-based position, 0 when p does not occur
IndexOf(s, p) ==
    LET hits == {k \in 1..(Len(s) + 1) : OccursAt(s, p, k)}
    IN  IF hits = {} THEN 0 ELSE CHOOSE k \in hits : \A j \in hits : k <= j

\* s.includes(p)
Includes(s, p) == IndexOf(s, p) # 0

\* s.trim()
Trim(s) ==
    LET keep == {k \in 1..Len(s) : s[k] \notin SpaceChars}
    IN  IF keep = {} THEN <<>>
        ELSE LET lo == CHOOSE k \in keep : \A j \in keep : k <= j
                 hi == CHOOSE k \in keep : \A j \in keep : k >= j
             IN  SubSeq(s, lo, hi)

\* s.split(sep)[0]: the text before the first occurrence of sep
BeforeFirst(s, sep) ==
    LET k == IndexOf(s, sep)
    IN  IF k = 0 THEN s ELSE SubSeq(s, 1, k - 1)

\* the length of the longest prefix of s, from position k on, made of chars of S
RECURSIVE RunLen(_, _, _)
RunLen(s, k, S) ==
    IF k <= Len(s) /\ s[k] \in S THEN 1 + RunLen(s, k + 1, S) ELSE 0

\* the length of the longest run of chars outside S, from position k on
RECURSIVE RunLenNot(_, _, _)
RunLenNot(s, k, S) ==
    IF k <= Len(s) /\ s[k] \notin S THEN 1 + RunLenNot(s, k + 1, S) ELSE 0

\* s.substring(n): s without its first n characters
Substring(s, n) == SubSeq(s, n + 1, Len(s))

\* s.split(sep) for a one-character separator
RECURSIVE Split(_, _)
Split(s, sep) ==
    LET k == IndexOf(s, <<sep>>)
    IN  IF k = 0 THEN <<s>>
        ELSE <<SubSeq(s, 1, k - 1)>> \o Split(Substring(s, k), sep)

\* parts.join(sep) for a one-character separator
RECURSIVE Join(_, _)
Join(parts, sep) ==
    IF parts = <<>> THEN <<>>
    ELSE IF Len(parts) = 1 THEN parts[1]
    ELSE parts[1] \o <<sep>> \o Join(Tail(parts), sep)

\* lines[i] for a JavaScript (0-based) index
At(lines, i) == lines[i + 1]

\* the least element of a non-empty set of numbers
Least(S) == CHOOSE k \in S : \A j \in S : k <= j

-----------------------------------------------------------------------------
(* LuaParser.inferTypeFromValue                                            *)

\* the number test without the optional sign: /^\d+\.?\d*$/
IsNumberTextUnsigned(value) ==
    LET n == RunLen(value, 1, Digits)
        b == 1 + n
        c == IF b <= Len(value) /\ value[b] = "." THEN b + 1 ELSE b
        m == RunLen(value, c, Digits)
    IN  /\ n >= 1
        /\ c + m = Len(value) + 1

\* /^-?\d+\.?\d*$/.test(value)
IsNumberText(value) ==
    LET a == IF Len(value) >= 1 /\ value[1] = "-" THEN 2 ELSE 1
        n == RunLen(value, a, Digits)
        b == a + n
        c == IF b <= Len(value) /\ value[b] = "." THEN b + 1 ELSE b
        m == RunLen(value, c, Digits)
    IN  /\ n >= 1
        /\ c + m = Len(value) + 1

\* The test order of inferTypeFromValue, on the comment-stripped, trimmed text.
InferStripped(v) ==
    IF v = <<"t","r","u","e">> \/ v = <<"f","a","l","s","e">> THEN "boolean"
    ELSE IF v = <<"n","i","l">> THEN "nil"
    ELSE IF \/ (StartsWith(v, <<"'">>) /\ EndsWith(v, <<"'">>))
            \/ (StartsWith(v, <<"\"">>) /\ EndsWith(v, <<"\"">>)) THEN "string"
    ELSE IF IsNumberText(v) THEN "number"
    ELSE IF StartsWith(v, <<"{">>) THEN "table"
    ELSE "any"

inferTypeFromValue(value) ==
    InferStripped(Trim(BeforeFirst(value, <<"-","-">>)))

-----------------------------------------------------------------------------
(* LuaParser.detectContext                                                 *)

TextClient == <<"c","l","i","e","n","t">>
TextServer == <<"s","e","r","v","e","r">>
TextShared == <<"s","h","a","r","e","d">>

\* detectContext with the server test made before the client test
detectContextServerFirst(filePath) ==
    LET lowerPath == ToLowerCase(filePath)
    IN  IF Includes(lowerPath, TextServer) THEN "server"
        ELSE IF Includes(lowerPath, TextClient) THEN "client"
        ELSE IF Includes(lowerPath, TextShared) THEN "shared"
        ELSE "shared"

detectContext(filePath) ==
    LET lowerPath == ToLowerCase(filePath)
    IN  IF Includes(lowerPath, TextClient) THEN "client"
        ELSE IF Includes(lowerPath, TextServer) THEN "server"
        ELSE IF Includes(lowerPath, TextShared) THEN "shared"
        ELSE "shared"

-----------------------------------------------------------------------------
(* LuaParser: the regular expressions of the export scan.  A match is the  *)
(* leftmost one, as String.prototype.match finds it; every quantifier of   *)
(* these expressions is followed by a character outside its class, so the  *)
(* greedy run is the only way to match.                                    *)

TextExports  == <<"e","x","p","o","r","t","s">>
TextFunction == <<"f","u","n","c","t","i","o","n">>
Quotes == {"'", "\""}

NoMatch == [ok |-> FALSE]

\* the position after the run of blanks that starts at p
AfterSpaces(s, p) == p + RunLen(s, p, SpaceChars)

\* the position after the run of word characters that starts at p
AfterWord(s, p) == p + RunLen(s, p, WordChars)

\* the position after the run of characters outside S that starts at p
AfterNot(s, p, S) == p + RunLenNot(s, p, S)

\* s[p] = c, false beyond the end of s
CharAt(s, p, c) == p <= Len(s) /\ s[p] = c

\* s[p] \in S, false beyond the end of s
CharIn(s, p, S) == p <= Len(s) /\ s[p] \in S

\* the leftmost match, matches[k] being the attempt to match from position k
FirstMatch(matches) ==
    LET hits == { k \in DOMAIN matches : matches[k].ok }
    IN  IF hits = {} THEN NoMatch ELSE matches[Least(hits)]

\* /exports\s*\(\s*['"]([^'"]+)['"]\s*,\s*/ from an occurrence of "exports"
\* at k: the captured name and the position after the comma and its blanks
ExportHeadAt(s, k) ==
    LET p1 == AfterSpaces(s, k + 7)
        p2 == AfterSpaces(s, p1 + 1)
        p3 == AfterNot(s, p2 + 1, Quotes)
        p4 == AfterSpaces(s, p3 + 1)
    IN  IF /\ CharAt(s, p1, "(")
           /\ CharIn(s, p2, Quotes)
           /\ p3 > p2 + 1
           /\ CharIn(s, p3, Quotes)
           /\ CharAt(s, p4, ",")
        THEN [ok |-> TRUE, name |-> SubSeq(s, p2 + 1, p3 - 1),
              next |-> AfterSpaces(s, p4 + 1)]
        ELSE NoMatch

\* (\w+) from position a, then \s*\)
ExportRefName(s, name, a, wordEnd) ==
    IF wordEnd > a /\ CharAt(s, AfterSpaces(s, wordEnd), ")")
    THEN [ok |-> TRUE, name |-> name, ref |-> SubSeq(s, a, wordEnd - 1)]
    ELSE NoMatch

\* (\w+)\s*\) after the head h
ExportRefAfter(s, h) ==
    IF h.ok THEN ExportRefName(s, h.name, h.next, AfterWord(s, h.next)) ELSE NoMatch

\* /exports\s*\(\s*['"]([^'"]+)['"]\s*,\s*(\w+)\s*\)/ at k
ExportRefAt(s, k) ==
    IF OccursAt(s, TextExports, k) THEN ExportRefAfter(s, ExportHeadAt(s, k)) ELSE NoMatch

\* exportLine.match(/exports\s*\(\s*['"]([^'"]+)['"]\s*,\s*(\w+)\s*\)/)
MatchExportRef(s) == FirstMatch([k \in 1..Len(s) |-> ExportRefAt(s, k)])

\* the word function after the head h
ExportInlineAfter(s, h) ==
    IF h.ok /\ OccursAt(s, TextFunction, h.next)
    THEN [ok |-> TRUE, name |-> h.name]
    ELSE NoMatch

\* /exports\s*\(\s*['"]([^'"]+)['"]\s*,\s*function/ at k
ExportInlineAt(s, k) ==
    IF OccursAt(s, TextExports, k) THEN ExportInlineAfter(s, ExportHeadAt(s, k)) ELSE NoMatch

\* exportLine.match(/exports\s*\(\s*['"]([^'"]+)['"]\s*,\s*function/)
MatchExportInline(s) == FirstMatch([k \in 1..Len(s) |-> ExportInlineAt(s, k)])

\* \(([^)]*)\) with the parenthesis looked for at q
ParamsAt(s, q, close) ==
    IF CharAt(s, q, "(") /\ close <= Len(s)
    THEN [ok |-> TRUE, params |-> SubSeq(s, q + 1, close - 1)]
    ELSE NoMatch

\* (\w+)\s*\(([^)]*)\) with the name from a to wordEnd - 1
NamedParams(name, match) ==
    IF match.ok THEN [ok |-> TRUE, name |-> name, params |-> match.params] ELSE NoMatch

\* \s+(\w+)\s*\(([^)]*)\) with the blanks from p to a - 1
HeaderNameAt(s, p, a, wordEnd, q) ==
    IF a > p /\ wordEnd > a
    THEN NamedParams(SubSeq(s, a, wordEnd - 1),
                     ParamsAt(s, q, AfterNot(s, q + 1, {")"})))
    ELSE NoMatch

\* the name starts at a
HeaderFrom(s, p, a, wordEnd) == HeaderNameAt(s, p, a, wordEnd, AfterSpaces(s, wordEnd))

\* /function\s+(\w+)\s*\(([^)]*)\)/ at k
FunctionHeaderAt(s, k) ==
    IF OccursAt(s, TextFunction, k)
    THEN HeaderFrom(s, k + 8, AfterSpaces(s, k + 8), AfterWord(s, AfterSpaces(s, k + 8)))
    ELSE NoMatch

\* line.match(/(?:local\s+)?function\s+(\w+)\s*\(([^)]*)\)/): the optional
\* prefix changes where the match starts, never which "function" it uses
MatchFunctionHeader(s) == FirstMatch([k \in 1..Len(s) |-> FunctionHeaderAt(s, k)])

\* \s*\(([^)]*)\) from position p
InlineParamsFrom(s, q) == ParamsAt(s, q, AfterNot(s, q + 1, {")"}))

\* /function\s*\(([^)]*)\)/ at k
InlineFunctionAt(s, k) ==
    IF OccursAt(s, TextFunction, k)
    THEN InlineParamsFrom(s, AfterSpaces(s, k + 8))
    ELSE NoMatch

\* combinedText.match(/function\s*\(([^)]*)\)/)
MatchInlineFunction(s) == FirstMatch([k \in 1..Len(s) |-> InlineFunctionAt(s, k)])

-----------------------------------------------------------------------------
(* LuaParser.parseFunctionSignature, findFunctionDefinition,               *)
(* parseInlineFunction                                                     *)

\* the type 'any', as characters like the types read from the documentation
TextAny == <<"a", "n", "y">>

\* the parameters pushed for the pieces of the split parameter text
RECURSIVE SignatureParams(_)
SignatureParams(pieces) ==
    IF pieces = <<>> THEN <<>>
    ELSE LET param == Trim(Head(pieces))
         IN  (IF param # <<>> THEN <<[name |-> param, type |-> TextAny]>> ELSE <<>>)
                \o SignatureParams(Tail(pieces))

parseFunctionSignature(paramsString) ==
    [parameters |-> IF Trim(paramsString) # <<>>
                    THEN SignatureParams(Split(paramsString, ","))
                    ELSE <<>>,
     returnTypes |-> <<>>]

\* how many lines above the export line findFunctionDefinition looks at
SearchWindow == 500

\* the search with no limit: it goes on to the top of the file
SearchFloorTop(exportLineIndex) == 0

\* the lowest line index the search reaches
SearchFloor(exportLineIndex) ==
    IF exportLineIndex - SearchWindow > 0 THEN exportLineIndex - SearchWindow ELSE 0

\* Greatest(S): the largest element of a non-empty set of integers
Greatest(S) == CHOOSE x \in S : \A y \in S : y <= x

\* the line indices the loop of findFunctionDefinition visits
SearchRange(exportLineIndex) == SearchFloor(exportLineIndex) .. (exportLineIndex - 1)

\* funcMatch && funcMatch[1] === functionName
HeaderNamed(funcMatch, functionName) == funcMatch.ok /\ funcMatch.name = functionName

\* the test of one loop iteration with the commented-out lines not skipped
\* (the earlier revision of the scanner)
DefinesUnskipped(lines, i, functionName) ==
    HeaderNamed(MatchFunctionHeader(Trim(At(lines, i))), functionName)

\* the test on the trimmed line
DefinesIn(line, functionName) ==
    /\ ~StartsWith(line, <<"-", "-">>)
    /\ HeaderNamed(MatchFunctionHeader(line), functionName)

\* the test of one loop iteration: line i is not skipped and defines the name
Defines(lines, i, functionName) == DefinesIn(Trim(At(lines, i)), functionName)

\* what the loop returns at line i
FoundAt(lines, i) ==
    [found |-> TRUE,
     functionDef |-> parseFunctionSignature(MatchFunctionHeader(Trim(At(lines, i))).params),
     lineIndex |-> i]

\* what the loop returns, hits being the lines of its range that pass the test
FoundAmong(lines, hits) ==
    IF hits = {} THEN [found |-> FALSE] ELSE FoundAt(lines, Greatest(hits))

\* the loop runs from exportLineIndex - 1 downward and returns at the first
\* line that passes the test, which is the highest such index of its range
findFunctionDefinition(lines, exportLineIndex, functionName) ==
    FoundAmong(lines, { i \in SearchRange(exportLineIndex) :
                            Defines(lines, i, functionName) })

\* how many lines parseInlineFunction joins
InlineWindow == 5

RECURSIVE InlineFrom(_, _, _, _)

\* the end of iteration i: return on a match, go on otherwise
InlineMatched(lines, lineIndex, i, combinedText, match) ==
    IF match.ok THEN parseFunctionSignature(match.params)
    ELSE InlineFrom(lines, lineIndex, i + 1, combinedText)

\* iteration i with its line joined to combinedText
InlineStep(lines, lineIndex, i, combinedText) ==
    InlineMatched(lines, lineIndex, i, combinedText, MatchInlineFunction(combinedText))

\* the loop of parseInlineFunction from iteration i on
InlineFrom(lines, lineIndex, i, combinedText) ==
    IF i < InlineWindow /\ lineIndex + i < Len(lines)
    THEN InlineStep(lines, lineIndex, i,
                    combinedText \o <<" ">> \o Trim(At(lines, lineIndex + i)))
    ELSE [parameters |-> <<>>, returnTypes |-> <<>>]

parseInlineFunction(lines, lineIndex) == InlineFrom(lines, lineIndex, 0, <<>>)

-----------------------------------------------------------------------------
(* LuaParser.extractDocumentation                                          *)

TextParamTag      == <<"@","p","a","r","a","m">>
TextReturnTag     == <<"@","r","e","t","u","r","n">>
TextDeprecatedTag == <<"@","d","e","p","r","e","c","a","t","e","d">>
TwoDashes   == <<"-", "-">>
ThreeDashes == <<"-", "-", "-">>

\* the characters the "." of a regular expression does not match
LineTerminators == {"\n", "\r"}

\* (.+) from position d on
TailFrom(s, d) == SubSeq(s, d, AfterNot(s, d, LineTerminators) - 1)

\* the capture of the tail, starts being the positions (.+) can start at
TailAmong(s, starts) == IF starts = {} THEN <<>> ELSE TailFrom(s, Greatest(starts))

\* the optional tail (?:\s+(.+))? of the tag expressions, tried at position c:
\* \s+ takes as many blanks as leave one character for .+, which then runs
\* to the end of the line; the capture is '' when the group does not match
TagTail(s, c) ==
    TailAmong(s, { d \in (c + 1)..AfterSpaces(s, c) :
                       d <= Len(s) /\ s[d] \notin LineTerminators })

\* ([^\s]+)(?:\s+(.+))? with the type from b to typeEnd - 1
TypeAt(s, b, typeEnd) ==
    IF typeEnd > b
    THEN [ok |-> TRUE, type |-> SubSeq(s, b, typeEnd - 1),
          description |-> TagTail(s, typeEnd)]
    ELSE NoMatch

\* the match of a @param tag, rest being the match of its type and tail
NamedType(name, rest) ==
    IF rest.ok
    THEN [ok |-> TRUE, name |-> name, type |-> rest.type,
          description |-> rest.description]
    ELSE NoMatch

\* \s+([^\s]+)(?:\s+(.+))? with the blanks from wordEnd to b - 1
ParamTypeAt(s, name, wordEnd, b) ==
    IF b > wordEnd
    THEN NamedType(name, TypeAt(s, b, AfterNot(s, b, SpaceChars)))
    ELSE NoMatch

\* (\w+)\s+([^\s]+)(?:\s+(.+))? with the name from a to wordEnd - 1
ParamNameAt(s, p, a, wordEnd) ==
    IF a > p /\ wordEnd > a
    THEN ParamTypeAt(s, SubSeq(s, a, wordEnd - 1), wordEnd, AfterSpaces(s, wordEnd))
    ELSE NoMatch

\* /@param\s+(\w+)\s+([^\s]+)(?:\s+(.+))?/ at k
ParamTagAt(s, k) ==
    IF OccursAt(s, TextParamTag, k)
    THEN ParamNameAt(s, k + 6, AfterSpaces(s, k + 6), AfterWord(s, AfterSpaces(s, k + 6)))
    ELSE NoMatch

\* line.match(/@param\s+(\w+)\s+([^\s]+)(?:\s+(.+))?/)
MatchParamTag(s) == FirstMatch([k \in 1..Len(s) |-> ParamTagAt(s, k)])

\* \s+([^\s]+)(?:\s+(.+))? with the blanks from p to b - 1
ReturnTypeAt(s, p, b) ==
    IF b > p THEN TypeAt(s, b, AfterNot(s, b, SpaceChars)) ELSE NoMatch

\* /@return\s+([^\s]+)(?:\s+(.+))?/ at k
ReturnTagAt(s, k) ==
    IF OccursAt(s, TextReturnTag, k)
    THEN ReturnTypeAt(s, k + 7, AfterSpaces(s, k + 7))
    ELSE NoMatch

\* line.match(/@return\s+([^\s]+)(?:\s+(.+))?/)
MatchReturnTag(s) == FirstMatch([k \in 1..Len(s) |-> ReturnTagAt(s, k)])

\* the first loop: is a three-dash line reached from line j upward through
\* comment lines and blank lines
RECURSIVE hasThreeDashComments(_, _)
hasThreeDashComments(lines, j) ==
    IF j < 0 THEN FALSE
    ELSE LET checkLine == Trim(At(lines, j))
         IN  IF StartsWith(checkLine, ThreeDashes) THEN TRUE
             ELSE IF checkLine = <<>> \/ StartsWith(checkLine, TwoDashes)
                  THEN hasThreeDashComments(lines, j - 1)
                  ELSE FALSE

\* the collecting loop of the earlier revision: a two-dash line is kept
\* only below a three-dash line, and a blank line is walked over
RECURSIVE CollectCommentsLenient(_, _, _)
CollectCommentsLenient(lines, i, rich) ==
    IF i < 0 THEN <<>>
    ELSE LET line == Trim(At(lines, i))
         IN  IF StartsWith(line, ThreeDashes)
             THEN Append(CollectCommentsLenient(lines, i - 1, rich),
                         Trim(Substring(line, 3)))
             ELSE IF StartsWith(line, TwoDashes)
                  THEN IF rich
                       THEN Append(CollectCommentsLenient(lines, i - 1, rich),
                                   Trim(Substring(line, 2)))
                       ELSE CollectCommentsLenient(lines, i - 1, rich)
                  ELSE IF line = <<>>
                       THEN CollectCommentsLenient(lines, i - 1, rich)
                       ELSE <<>>

\* the collecting loop: commentLines for the walk from line i upward; unshift
\* puts the higher lines of the file first
RECURSIVE CollectCommentsFrom(_, _)
CollectCommentsFrom(lines, i) ==
    IF i < 0 THEN <<>>
    ELSE LET line == Trim(At(lines, i))
         IN  IF line = <<>> THEN <<>>
             ELSE IF StartsWith(line, ThreeDashes)
                  THEN Append(CollectCommentsFrom(lines, i - 1),
                              Trim(Substring(line, 3)))
                  ELSE IF StartsWith(line, TwoDashes)
                       THEN Append(CollectCommentsFrom(lines, i - 1),
                                   Trim(Substring(line, 2)))
                       ELSE <<>>

\* commentLines of the earlier revision
CollectCommentsEarlier(lines, startIndex) ==
    CollectCommentsLenient(lines, startIndex - 1,
                           hasThreeDashComments(lines, startIndex - 1))

\* commentLines after the collecting loop
CollectComments(lines, startIndex) == CollectCommentsFrom(lines, startIndex - 1)

\* docs before the tag loop, with the loop's two locals
EmptyDocs ==
    [description |-> <<>>, params |-> <<>>, returns |-> <<>>, rawComments |-> <<>>,
     hasDeprecated |-> FALSE, deprecated |-> <<>>,
     descriptionLines |-> <<>>, foundTag |-> FALSE]

\* the push made whether or not the tag line matched its expression
PushParamAlways(params, paramMatch) ==
    IF paramMatch.ok
    THEN Append(params, [name |-> paramMatch.name, type |-> paramMatch.type,
                         description |-> paramMatch.description])
    ELSE Append(params, [name |-> <<>>, type |-> <<>>, description |-> <<>>])

\* docs.params.push(...) if (paramMatch)
PushParam(params, paramMatch) ==
    IF paramMatch.ok
    THEN Append(params, [name |-> paramMatch.name, type |-> paramMatch.type,
                         description |-> paramMatch.description])
    ELSE params

\* docs.returns.push(...) if (returnMatch)
PushReturn(returns, returnMatch) ==
    IF returnMatch.ok
    THEN Append(returns, [type |-> returnMatch.type,
                          description |-> returnMatch.description])
    ELSE returns

\* one iteration of the tag loop without the test of foundTag: free text
\* goes to the description wherever it stands
ParseTagLineKeepsText(d, line) ==
    IF StartsWith(line, TextParamTag)
    THEN [d EXCEPT !.foundTag = TRUE, !.params = PushParam(@, MatchParamTag(line))]
    ELSE IF StartsWith(line, TextReturnTag)
    THEN [d EXCEPT !.foundTag = TRUE, !.returns = PushReturn(@, MatchReturnTag(line))]
    ELSE IF StartsWith(line, TextDeprecatedTag)
    THEN [d EXCEPT !.foundTag = TRUE,
                   !.hasDeprecated = TRUE,
                   !.deprecated = Trim(Substring(line, Len(TextDeprecatedTag)))]
    ELSE IF Trim(line) # <<>>
    THEN [d EXCEPT !.descriptionLines = Append(@, line)]
    ELSE d

\* one iteration of the tag loop
ParseTagLine(d, line) ==
    IF StartsWith(line, TextParamTag)
    THEN [d EXCEPT !.foundTag = TRUE, !.params = PushParam(@, MatchParamTag(line))]
    ELSE IF StartsWith(line, TextReturnTag)
    THEN [d EXCEPT !.foundTag = TRUE, !.returns = PushReturn(@, MatchReturnTag(line))]
    ELSE IF StartsWith(line, TextDeprecatedTag)
    THEN [d EXCEPT !.foundTag = TRUE,
                   !.hasDeprecated = TRUE,
                   !.deprecated = Trim(Substring(line, Len(TextDeprecatedTag)))]
    ELSE IF ~d.foundTag /\ Trim(line) # <<>>
    THEN [d EXCEPT !.descriptionLines = Append(@, line)]
    ELSE d

\* the tag loop over commentLines
RECURSIVE ParseTags(_, _)
ParseTags(d, commentLines) ==
    IF commentLines = <<>> THEN d
    ELSE ParseTags(ParseTagLine(d, Head(commentLines)), Tail(commentLines))

\* the returned docs, d being docs and the locals after the tag loop;
\* hasDeprecated tells whether docs.deprecated was assigned
FinishDocs(d, commentLines) ==
    [description |-> Trim(Join(d.descriptionLines, "\n")),
     params |-> d.params,
     returns |-> d.returns,
     rawComments |-> commentLines,
     hasDeprecated |-> d.hasDeprecated,
     deprecated |-> d.deprecated]

DocsOf(commentLines) == FinishDocs(ParseTags(EmptyDocs, commentLines), commentLines)

extractDocumentation(lines, startIndex) == DocsOf(CollectComments(lines, startIndex))

-----------------------------------------------------------------------------
(* LuaParser.parseExport and TypeGenerator.mergeParameters                 *)

TextExportsCall == <<"e","x","p","o","r","t","s","(">>
TextFunctionCall == <<"f","u","n","c","t","i","o","n","(">>
TextFunctionSpaceCall == <<"f","u","n","c","t","i","o","n"," ","(">>

\* the record parseExport returns, docs being the documentation extracted
ExportRecord(exportLine, context, exportName, functionDef, docs) ==
    [ok |-> TRUE,
     name |-> exportName,
     context |-> context,
     documentation |-> docs,
     parameters |-> functionDef.parameters,
     returnTypes |-> functionDef.returnTypes,
     description |-> docs.description,
     filePath |-> exportLine]

\* functionDef?.parameters || [] and functionDef?.returnTypes || []
NoFunctionDef == [parameters |-> <<>>, returnTypes |-> <<>>]

\* the look-up with functionLineIndex left at the export line
ResolvedAtExport(result, lineIndex) ==
    IF result.found
    THEN [functionDef |-> result.functionDef, lineIndex |-> lineIndex]
    ELSE [functionDef |-> NoFunctionDef, lineIndex |-> lineIndex]

\* functionDef and functionLineIndex after a reference was looked up
Resolved(result, lineIndex) ==
    IF result.found
    THEN [functionDef |-> result.functionDef, lineIndex |-> result.lineIndex]
    ELSE [functionDef |-> NoFunctionDef, lineIndex |-> lineIndex]

\* functionDef and functionLineIndex
Located(lines, lineIndex, functionRef, isInline) ==
    IF ~isInline
    THEN Resolved(findFunctionDefinition(lines, lineIndex, functionRef), lineIndex)
    ELSE [functionDef |-> parseInlineFunction(lines, lineIndex), lineIndex |-> lineIndex]

\* the second half of parseExport, where the function was located
DocumentedAt(lines, lineIndex, context, exportName, where) ==
    ExportRecord(At(lines, lineIndex), context, exportName, where.functionDef,
                 extractDocumentation(lines, where.lineIndex))

\* the second half of parseExport
ExportFrom(lines, lineIndex, context, exportName, functionRef, isInline) ==
    DocumentedAt(lines, lineIndex, context, exportName,
                 Located(lines, lineIndex, functionRef, isInline))

\* parseExport after its matches; functionRef of an inline export (null in
\* the code) is never read
ExportMatched(lines, lineIndex, context, isInline, exportMatch, inlineMatch) ==
    IF exportMatch.ok \/ (isInline /\ inlineMatch.ok)
    THEN ExportFrom(lines, lineIndex, context,
                    IF exportMatch.ok THEN exportMatch.name ELSE inlineMatch.name,
                    IF exportMatch.ok THEN exportMatch.ref ELSE <<>>,
                    isInline)
    ELSE NoMatch

\* exportLine.includes('function(') || exportLine.includes('function (')
IsInline(exportLine) ==
    \/ Includes(exportLine, TextFunctionCall)
    \/ Includes(exportLine, TextFunctionSpaceCall)

\* parseExport with the match of a reference taken as the match of the line
ExportOn(lines, lineIndex, context, exportMatch) ==
    ExportMatched(lines, lineIndex, context, IsInline(At(lines, lineIndex)),
                  exportMatch, MatchExportInline(At(lines, lineIndex)))

\* a reference match that findFunctionDefinition does not resolve, dropped
ResolvedOnly(lines, lineIndex, exportMatch) ==
    IF /\ exportMatch.ok
       /\ ~findFunctionDefinition(lines, lineIndex, exportMatch.ref).found
    THEN NoMatch
    ELSE exportMatch

\* parseExport giving up on a reference that findFunctionDefinition does not
\* resolve
parseExportResolvedOnly(lines, lineIndex, context) ==
    ExportOn(lines, lineIndex, context,
             ResolvedOnly(lines, lineIndex, MatchExportRef(At(lines, lineIndex))))

\* [ok |-> FALSE] stands for the null the method returns
parseExport(lines, lineIndex, context) ==
    ExportOn(lines, lineIndex, context, MatchExportRef(At(lines, lineIndex)))

\* docMap.get(name): the last documented parameter of that name, if any
DocIndex(docParams, name) ==
    LET hits == { k \in 1..Len(docParams) : docParams[k].name = name }
    IN  IF hits = {} THEN 0 ELSE Greatest(hits)

\* the merge without its second loop: tags that name no parameter are lost
ExtraDocParamsNone(funcParams, docParams) == <<>>

\* the documented parameters the signature does not name, in their order
RECURSIVE ExtraDocParams(_, _)
ExtraDocParams(funcParams, docParams) ==
    IF docParams = <<>> THEN <<>>
    ELSE LET docParam == Head(docParams)
         IN  (IF \A k \in 1..Len(funcParams) : funcParams[k].name # docParam.name
              THEN <<[name |-> docParam.name, type |-> docParam.type,
                      description |-> docParam.description]>>
              ELSE <<>>) \o ExtraDocParams(funcParams, Tail(docParams))

\* mergeParameters taking nothing from the documentation
mergeParametersUndocumented(funcParams, docParams) ==
    [k \in 1..Len(funcParams) |->
        [name |-> funcParams[k].name, type |-> funcParams[k].type,
         description |-> <<>>]]

mergeParameters(funcParams, docParams) ==
    [k \in 1..Len(funcParams) |->
        LET j == DocIndex(docParams, funcParams[k].name)
        IN  [name |-> funcParams[k].name,
             type |-> IF j # 0 /\ docParams[j].type # <<>> THEN docParams[j].type
                      ELSE IF funcParams[k].type # <<>> THEN funcParams[k].type
                      ELSE TextAny,
             description |-> IF j # 0 THEN docParams[j].description ELSE <<>>]]
      \o ExtraDocParams(funcParams, docParams)

-----------------------------------------------------------------------------
(* The state aggregator.  A JavaScript Map is modelled as the sequence of  *)
(* its entries in insertion order; names are unique in it.                 *)

\* Map.get(name): the position of the entry, 0 when absent
Find(map, name) ==
    LET hits == {k \in 1..Len(map) : map[k].name = name}
    IN  IF hits = {} THEN 0 ELSE CHOOSE k \in hits : TRUE

\* existing.resources.includes(r)
InSeq(s, x) == \E k \in 1..Len(s) : s[k] = x

\* MergeExisting without the includes test: the unit is pushed every time
MergeExistingRepeats(existing, state, resourceName) ==
    [existing EXCEPT
        !.resources = Append(existing.resources, resourceName),
        !.type = IF existing.type # state.type THEN "any" ELSE existing.type]

\* MergeExisting with the value of the latest observation stored as well
MergeExistingLastValue(existing, state, resourceName) ==
    [existing EXCEPT
        !.resources = IF InSeq(existing.resources, resourceName)
                      THEN existing.resources
                      ELSE Append(existing.resources, resourceName),
        !.type = IF existing.type # state.type THEN "any" ELSE existing.type,
        !.value = state.value]

\* MergeExisting with the type of the latest observation kept on a disagreement
MergeExistingLastWins(existing, state, resourceName) ==
    [existing EXCEPT
        !.resources = IF InSeq(existing.resources, resourceName)
                      THEN existing.resources
                      ELSE Append(existing.resources, resourceName),
        !.type = IF existing.type # state.type THEN state.type ELSE existing.type]

\* the collision branch shared by the three add methods:
\* push the resource when new, widen the type to 'any' when the types differ
MergeExisting(existing, state, resourceName) ==
    [existing EXCEPT
        !.resources = IF InSeq(existing.resources, resourceName)
                      THEN existing.resources
                      ELSE Append(existing.resources, resourceName),
        !.type = IF existing.type # state.type THEN "any" ELSE existing.type]

\* one iteration of the loop of addGlobalStates
AddGlobalState(map, state, resourceName) ==
    LET k == Find(map, state.name)
    IN  IF k # 0
        THEN [map EXCEPT ![k] = MergeExisting(map[k], state, resourceName)]
        ELSE Append(map, [name |-> state.name, type |-> state.type,
                          context |-> state.context,
                          resources |-> <<resourceName>>,
                          value |-> state.value])

\* one iteration of the loop of addPlayerStates / addLocalPlayerStates
AddEntityState(map, state, resourceName) ==
    LET k == Find(map, state.name)
    IN  IF k # 0
        THEN [map EXCEPT ![k] = MergeExisting(map[k], state, resourceName)]
        ELSE Append(map, [name |-> state.name, type |-> state.type,
                          context |-> state.context,
                          resources |-> <<resourceName>>,
                          value |-> state.value,
                          replicated |-> state.replicated])

RECURSIVE addGlobalStatesTo(_, _, _)
addGlobalStatesTo(map, states, resourceName) ==
    IF states = <<>> THEN map
    ELSE addGlobalStatesTo(AddGlobalState(map, Head(states), resourceName),
                           Tail(states), resourceName)

RECURSIVE addPlayerStatesTo(_, _, _)
addPlayerStatesTo(map, states, resourceName) ==
    IF states = <<>> THEN map
    ELSE addPlayerStatesTo(AddEntityState(map, Head(states), resourceName),
                           Tail(states), resourceName)

RECURSIVE addLocalPlayerStatesTo(_, _, _)
addLocalPlayerStatesTo(map, states, resourceName) ==
    IF states = <<>> THEN map
    ELSE addLocalPlayerStatesTo(AddEntityState(map, Head(states), resourceName),
                                Tail(states), resourceName)

-----------------------------------------------------------------------------
(* generateStateFile: the merged Player / LocalPlayer view (allStates).    *)

\* the entry the first loop stores for a Player() state
ServerView(state) ==
    [name |-> state.name, type |-> state.type, context |-> state.context,
     resources |-> state.resources, value |-> state.value,
     replicated |-> state.replicated,
     contexts |-> <<"server">>,
     replication |-> IF state.replicated THEN "to client" ELSE "server only"]

\* the entry the second loop stores for a LocalPlayer state seen on no server side
ClientView(state) ==
    [name |-> state.name, type |-> state.type, context |-> state.context,
     resources |-> state.resources, value |-> state.value,
     replicated |-> state.replicated,
     contexts |-> <<"client">>,
     replication |-> IF state.replicated THEN "to server" ELSE "client only"]

\* the merge branch of the second loop
MergeClient(existing, state) ==
    [existing EXCEPT
        !.contexts = Append(existing.contexts, "client"),
        !.replication =
            IF state.replicated
            THEN IF existing.replication = "server only" THEN "bidirectional"
                 ELSE IF existing.replication = "to client" THEN "bidirectional"
                 ELSE existing.replication
            ELSE existing.replication,
        !.type = IF existing.type # state.type THEN "any" ELSE existing.type]

RECURSIVE AddServerViews(_, _)
AddServerViews(view, pstates) ==
    IF pstates = <<>> THEN view
    ELSE LET st == Head(pstates)
             k  == Find(view, st.name)
         IN  AddServerViews(IF k # 0 THEN [view EXCEPT ![k] = ServerView(st)]
                            ELSE Append(view, ServerView(st)),
                            Tail(pstates))

RECURSIVE AddClientViews(_, _)
AddClientViews(view, lstates) ==
    IF lstates = <<>> THEN view
    ELSE LET st == Head(lstates)
             k  == Find(view, st.name)
         IN  AddClientViews(IF k # 0 THEN [view EXCEPT ![k] = MergeClient(view[k], st)]
                            ELSE Append(view, ClientView(st)),
                            Tail(lstates))

\* a.name.localeCompare(b.name) < 0 on the names of the model
NameRank(name) == CASE name = "a" -> 1 [] name = "b" -> 2 [] OTHER -> 3

\* Array.prototype.sort by name (names are unique in a Map)
RECURSIVE SortByName(_)
SortByName(entries) ==
    IF entries = <<>> THEN <<>>
    ELSE LET k == CHOOSE i \in 1..Len(entries) :
                      \A j \in 1..Len(entries) :
                          NameRank(entries[i].name) <= NameRank(entries[j].name)
             rest == [i \in 1..(Len(entries) - 1) |->
                          IF i < k THEN entries[i] ELSE entries[i + 1]]
         IN  <<entries[k]>> \o SortByName(rest)

\* sortedStates of the Player/LocalPlayer section
BuildAllStates(pstates, lstates) ==
    IF Len(pstates) > 0 \/ Len(lstates) > 0
    THEN SortByName(AddClientViews(AddServerViews(<<>>, pstates), lstates))
    ELSE <<>>

-----------------------------------------------------------------------------
(* The aggregator's inputs: what the scanner hands over for one file.      *)

MaxCalls == 3

StateNames == {"a", "b"}

\* value texts as parsePlayerStates / parseGlobalStates capture them
StateValues == { <<"t","r","u","e">>, <<"5">>, <<"g","e","t","(",")">> }

\* the file an observation array comes from: its resource and its side
Sources == { [res |-> "r1", context |-> "server"],
             [res |-> "r2", context |-> "client"] }

\* the record parseGlobalStates pushes (filePath is not read by the aggregator)
GlobalObs(name, value, context) ==
    [name |-> name, type |-> inferTypeFromValue(value), context |-> context,
     value |-> value]

\* the record parsePlayerStates pushes
EntityObs(name, value, context, replicated) ==
    [name |-> name, type |-> inferTypeFromValue(value), context |-> context,
     value |-> value, replicated |-> replicated]

\* the GlobalState observations of the model: every value for "a", one for "b"
GlobalPool(context) ==
    { GlobalObs("a", v, context) : v \in StateValues }
        \cup { GlobalObs("b", <<"t","r","u","e">>, context) }

\* the Player / LocalPlayer observations of the model
EntityPool(context) ==
    { EntityObs("a", v, context, r) :
          v \in { <<"t","r","u","e">>, <<"5">> }, r \in BOOLEAN }
        \cup { EntityObs("b", <<"t","r","u","e">>, context, FALSE) }

\* the arrays of one file: one observation, or the same key assigned twice
GlobalArrays(context) ==
    { <<o>> : o \in GlobalPool(context) }
        \cup { << GlobalObs("a", <<"t","r","u","e">>, context),
                  GlobalObs("a", <<"5">>, context) >> }

EntityArrays(context) ==
    { <<o>> : o \in EntityPool(context) }
        \cup { << EntityObs("a", <<"t","r","u","e">>, context, TRUE),
                  EntityObs("b", <<"t","r","u","e">>, context, FALSE) >> }

\* the types observed so far for a name of a container
TypesSeen(S, container, name) == { t \in {"boolean", "number", "nil", "string", "table", "any"} :
                                      <<container, name, t>> \in S }

\* the history after an array has been observed, one observation at a time
RECURSIVE Observe(_, _, _)
Observe(h, container, states) ==
    IF states = <<>> THEN h
    ELSE LET st == Head(states)
             again == Cardinality(TypesSeen(h.seen, container, st.name)) >= 2
         IN  Observe([seen |-> h.seen \cup {<<container, st.name, st.type>>},
                      revisited |-> IF again
                                    THEN h.revisited \cup {<<container, st.name>>}
                                    ELSE h.revisited],
                     container, Tail(states))

-----------------------------------------------------------------------------
(* The aggregator's operations.                                            *)

InitAgg ==
    /\ globalStates = <<>>
    /\ playerStates = <<>>
    /\ localPlayerStates = <<>>
    /\ allStates = <<>>
    /\ generated = FALSE
    /\ calls = 0
    /\ seen = {}
    /\ revisited = {}
    /\ keepLog = FALSE
    /\ log = <<>>
    /\ fnArg = <<>> /\ fnOut = "" /\ fnDone = FALSE
    /\ given = <<>> /\ scanLines = <<>> /\ scanPath = <<>> /\ scanContext = ""
    /\ idx = 0 /\ exports = <<>> /\ merged = <<>> /\ pc = "idle"
    /\ generators = <<>> /\ luaFiles = <<>> /\ fileIdx = 0 /\ dpc = "idle"
    /\ scanned = <<>> /\ totals = <<>> /\ reported = <<>> /\ scans = <<>>

\* the same aggregator, with its calls recorded
InitOrder ==
    /\ globalStates = <<>>
    /\ playerStates = <<>>
    /\ localPlayerStates = <<>>
    /\ allStates = <<>>
    /\ generated = FALSE
    /\ calls = 0
    /\ seen = {}
    /\ revisited = {}
    /\ keepLog = TRUE
    /\ log = <<>>
    /\ fnArg = <<>> /\ fnOut = "" /\ fnDone = FALSE
    /\ given = <<>> /\ scanLines = <<>> /\ scanPath = <<>> /\ scanContext = ""
    /\ idx = 0 /\ exports = <<>> /\ merged = <<>> /\ pc = "idle"
    /\ generators = <<>> /\ luaFiles = <<>> /\ fileIdx = 0 /\ dpc = "idle"
    /\ scanned = <<>> /\ totals = <<>> /\ reported = <<>> /\ scans = <<>>

Record(container, states, resourceName) ==
    /\ calls' = calls + 1
    /\ LET h == Observe([seen |-> seen, revisited |-> revisited], container, states)
       IN  seen' = h.seen /\ revisited' = h.revisited
    /\ log' = IF keepLog
              THEN Append(log, [container |-> container, states |-> states,
                                resourceName |-> resourceName])
              ELSE log
    /\ generated' = FALSE
    /\ allStates' = <<>>
    /\ UNCHANGED <<keepLog, fnVars, scanVars, drvVars>>

addGlobalStates(states, resourceName) ==
    /\ calls < MaxCalls
    /\ globalStates' = addGlobalStatesTo(globalStates, states, resourceName)
    /\ UNCHANGED <<playerStates, localPlayerStates>>
    /\ Record("global", states, resourceName)

addPlayerStates(states, resourceName) ==
    /\ calls < MaxCalls
    /\ playerStates' = addPlayerStatesTo(playerStates, states, resourceName)
    /\ UNCHANGED <<globalStates, localPlayerStates>>
    /\ Record("player", states, resourceName)

addLocalPlayerStates(states, resourceName) ==
    /\ calls < MaxCalls
    /\ localPlayerStates' =
           addLocalPlayerStatesTo(localPlayerStates, states, resourceName)
    /\ UNCHANGED <<globalStates, playerStates>>
    /\ Record("local", states, resourceName)

generateStateFile ==
    /\ ~generated
    /\ allStates' = BuildAllStates(playerStates, localPlayerStates)
    /\ generated' = TRUE
    /\ UNCHANGED <<globalStates, playerStates, localPlayerStates, calls, seen,
                   revisited, keepLog, log, fnVars, scanVars, drvVars>>

AddGlobal ==
    \E src \in Sources : \E states \in GlobalArrays(src.context) :
        addGlobalStates(states, src.res)

AddPlayer ==
    \E src \in Sources : \E states \in EntityArrays(src.context) :
        addPlayerStates(states, src.res)

AddLocalPlayer ==
    \E src \in Sources : \E states \in EntityArrays(src.context) :
        addLocalPlayerStates(states, src.res)

NextAgg ==
    \/ AddGlobal
    \/ AddPlayer
    \/ AddLocalPlayer
    \/ generateStateFile

\* any sequence of add calls, the view built at any point
SpecAgg == InitAgg /\ [][NextAgg]_vars

\* the same, with the calls recorded
SpecOrder == InitOrder /\ [][NextAgg]_vars

-----------------------------------------------------------------------------
(* Properties of the aggregator.                                           *)

Containers == {"global", "player", "local"}

MapOf(container) ==
    CASE container = "global" -> globalStates
      [] container = "player" -> playerStates
      [] container = "local"  -> localPlayerStates

\* the stored type of a name in a container ("absent" when it has no entry)
StoredType(container, name) ==
    LET map == MapOf(container)
        k == Find(map, name)
    IN  IF k = 0 THEN "absent" ELSE map[k].type

\* C1: once two observations of the same name in the same container have
\* carried different types, the stored type of that entry is 'any', after that
\* call and after every later call, whatever the later observations carry.
C1_WideningIsMonotone ==
    \A c \in Containers : \A n \in StateNames :
        Cardinality(TypesSeen(seen, c, n)) >= 2 => StoredType(c, n) = "any"

\* a name was observed again after its observations had disagreed
C1_Witness ==
    /\ <<"global", "a">> \in revisited
    /\ StoredType("global", "a") = "any"

\* the units of an entry, as a set
Units(entry) == { entry.resources[k] : k \in 1..Len(entry.resources) }

\* what the claims call the merged snapshot of the aggregator: per container
\* the entries with type and owning units, and the merged per-entity view
\* with its resolved replication
Snapshot(g, p, l) ==
    LET view == BuildAllStates(p, l)
        plain(map) == { [name |-> map[k].name, type |-> map[k].type,
                         units |-> Units(map[k])] : k \in 1..Len(map) }
    IN  [global |-> plain(g), player |-> plain(p), local |-> plain(l),
         entity |-> { [name |-> view[k].name, type |-> view[k].type,
                       units |-> Units(view[k]),
                       replication |-> view[k].replication] : k \in 1..Len(view) }]

\* the maps after the calls of a log, from an empty aggregator
RECURSIVE Replay(_, _)
Replay(maps, callLog) ==
    IF callLog = <<>> THEN maps
    ELSE LET c == Head(callLog)
         IN  Replay(
               CASE c.container = "global" ->
                      [maps EXCEPT !.g = addGlobalStatesTo(@, c.states, c.resourceName)]
                 [] c.container = "player" ->
                      [maps EXCEPT !.p = addPlayerStatesTo(@, c.states, c.resourceName)]
                 [] c.container = "local" ->
                      [maps EXCEPT !.l = addLocalPlayerStatesTo(@, c.states, c.resourceName)],
               Tail(callLog))

Orders(n) ==
    { f \in [1..n -> 1..n] : \A i, j \in 1..n : f[i] = f[j] => i = j }

\* C2: for any two orders in which the per-file observation arrays are fed,
\* the final merged snapshot is the same (entries, merged type, set of owning
\* units, resolved replication).
C2_OrderIndependent ==
    \A f \in Orders(Len(log)) :
        LET other == Replay([g |-> <<>>, p |-> <<>>, l |-> <<>>],
                            [k \in 1..Len(log) |-> log[f[k]]])
        IN  Snapshot(other.g, other.p, other.l)
              = Snapshot(globalStates, playerStates, localPlayerStates)

\* the replication value the claim gives a name, from the sides it was
\* observed on and the replicated flag each side stores
ClaimedReplication(name) ==
    LET s == Find(playerStates, name)
        c == Find(localPlayerStates, name)
    IN  IF s # 0 /\ c # 0 THEN "bidirectional"
        ELSE IF s # 0 THEN (IF playerStates[s].replicated THEN "to client" ELSE "server only")
        ELSE IF c # 0 THEN (IF localPlayerStates[c].replicated THEN "to server" ELSE "client only")
        ELSE "none"

\* C3: in the merged per-entity view a name observed on one side only has
\* that side's value, and a name observed on both sides is 'bidirectional'
\* for every combination of the two replicated flags.
C3_ReplicationTable ==
    generated =>
        \A k \in 1..Len(allStates) :
            allStates[k].replication = ClaimedReplication(allStates[k].name)

-----------------------------------------------------------------------------
(* One call of inferTypeFromValue or of detectContext on a text.           *)

MaxValueLen == 3

MaxPathParts == 3

\* every sequence over S of length at most n
SeqsUpTo(S, n) == UNION { [1..k -> S] : k \in 0..n }

\* the concatenation of a sequence of texts
RECURSIVE Concat(_)
Concat(parts) ==
    IF parts = <<>> THEN <<>> ELSE Head(parts) \o Concat(Tail(parts))

\* the characters value texts are made of in the model
ValueChars == {"'", "\"", "-", "1", ".", "{", " ", "x"}

\* the value texts of the type inference table of the specification, and a
\* few longer ones: a trailing comment, padding, a string of two dashes
TableValues ==
    { <<"t","r","u","e">>, <<"f","a","l","s","e">>, <<"n","i","l">>,
      <<"\"","h","i","\"">>, <<"'","h","i","'">>, <<"4","2">>, <<"{","}">>,
      <<"s","o","m","e","C","a","l","l","(",")">>,
      <<"t","r","u","e"," ","-","-"," ","o","n">>,
      <<" ","-","4",".","5"," ">>, <<"\"","-","-","\"">> }

ValueTexts == SeqsUpTo(ValueChars, MaxValueLen) \cup TableValues

\* the pieces file paths are made of in the model
PathParts ==
    { <<"c","l","i","e","n","t">>, <<"S","e","r","v","e","r">>,
      <<"S","H","A","R","E","D">>, <<"c","l","i">>, <<"e","n","t">>,
      <<"m","a","i","n">>, <<"/">>, <<".","l","u","a">> }

FilePaths == { Concat(parts) : parts \in SeqsUpTo(PathParts, MaxPathParts) }

InitInfer ==
    /\ fnArg \in ValueTexts
    /\ fnOut = ""
    /\ fnDone = FALSE
    /\ globalStates = <<>> /\ playerStates = <<>> /\ localPlayerStates = <<>>
    /\ allStates = <<>> /\ generated = FALSE /\ calls = 0
    /\ seen = {} /\ revisited = {} /\ keepLog = FALSE /\ log = <<>>
    /\ given = <<>> /\ scanLines = <<>> /\ scanPath = <<>> /\ scanContext = ""
    /\ idx = 0 /\ exports = <<>> /\ merged = <<>> /\ pc = "idle"
    /\ generators = <<>> /\ luaFiles = <<>> /\ fileIdx = 0 /\ dpc = "idle"
    /\ scanned = <<>> /\ totals = <<>> /\ reported = <<>> /\ scans = <<>>

InitContext ==
    /\ fnArg \in FilePaths
    /\ fnOut = ""
    /\ fnDone = FALSE
    /\ globalStates = <<>> /\ playerStates = <<>> /\ localPlayerStates = <<>>
    /\ allStates = <<>> /\ generated = FALSE /\ calls = 0
    /\ seen = {} /\ revisited = {} /\ keepLog = FALSE /\ log = <<>>
    /\ given = <<>> /\ scanLines = <<>> /\ scanPath = <<>> /\ scanContext = ""
    /\ idx = 0 /\ exports = <<>> /\ merged = <<>> /\ pc = "idle"
    /\ generators = <<>> /\ luaFiles = <<>> /\ fileIdx = 0 /\ dpc = "idle"
    /\ scanned = <<>> /\ totals = <<>> /\ reported = <<>> /\ scans = <<>>

InferType ==
    /\ ~fnDone
    /\ fnOut' = inferTypeFromValue(fnArg)
    /\ fnDone' = TRUE
    /\ UNCHANGED <<fnArg, aggVars, scanVars, drvVars>>

DetectContext ==
    /\ ~fnDone
    /\ fnOut' = detectContext(fnArg)
    /\ fnDone' = TRUE
    /\ UNCHANGED <<fnArg, aggVars, scanVars, drvVars>>

SpecInfer == InitInfer /\ [][InferType]_vars

SpecContext == InitContext /\ [][DetectContext]_vars

-----------------------------------------------------------------------------
(* Properties of inferTypeFromValue.                                       *)

\* the text with everything from the first inline comment marker on removed:
\* its longest prefix in which no "--" starts
C7_Uncommented(v) ==
    LET ok(n) == \A k \in 1..n : ~(k < Len(v) /\ v[k] = "-" /\ v[k + 1] = "-")
        n == CHOOSE m \in 0..Len(v) :
                 /\ ok(m)
                 /\ \A j \in 0..Len(v) : ok(j) => j <= m
    IN  SubSeq(v, 1, n)

\* a signed decimal number: an optional minus, digits, an optional point, digits
C7_IsDecimal(t) ==
    \E sign \in 0..1 : \E n \in 1..Len(t) : \E point \in 0..1 : \E m \in 0..Len(t) :
        /\ sign + n + point + m = Len(t)
        /\ sign = 1 => t[1] = "-"
        /\ \A k \in (sign + 1)..(sign + n) : t[k] \in Digits
        /\ point = 1 => t[sign + n + 1] = "."
        /\ \A k \in (sign + n + point + 1)..Len(t) : t[k] \in Digits

\* the first and the last character are the same quote character
C7_QuoteAtBothEnds(t) ==
    /\ Len(t) >= 1
    /\ t[1] \in {"'", "\""}
    /\ t[Len(t)] = t[1]

\* delimited by a matching pair of quotes: an opening and a closing one
C7_QuotedByPair(t) ==
    /\ Len(t) >= 2
    /\ C7_QuoteAtBothEnds(t)

\* the class of the table of the claim, quoted(t) deciding the string class
C7_Class(t, quoted) ==
    IF t \in { <<"t","r","u","e">>, <<"f","a","l","s","e">> } THEN "boolean"
    ELSE IF t = <<"n","i","l">> THEN "nil"
    ELSE IF quoted THEN "string"
    ELSE IF C7_IsDecimal(t) THEN "number"
    ELSE IF Len(t) >= 1 /\ t[1] = "{" THEN "table"
    ELSE "any"

\* the six examples of the claim
C7_Examples ==
    /\ fnArg = <<"t","r","u","e">> => fnOut = "boolean"
    /\ fnArg = <<"\"","h","i","\"">> => fnOut = "string"
    /\ fnArg = <<"4","2">> => fnOut = "number"
    /\ fnArg = <<"{","}">> => fnOut = "table"
    /\ fnArg = <<"n","i","l">> => fnOut = "nil"
    /\ fnArg = <<"s","o","m","e","C","a","l","l","(",")">> => fnOut = "any"

-----------------------------------------------------------------------------
(* Properties of detectContext.                                            *)

\* the token occurs in the path, letter case ignored
C8_Mentions(path, token) ==
    \E k \in 1..Len(path) :
        /\ k + Len(token) - 1 <= Len(path)
        /\ \A j \in 1..Len(token) :
              \/ path[k + j - 1] = token[j]
              \/ \E i \in 1..26 : UpperSeq[i] = path[k + j - 1] /\ LowerSeq[i] = token[j]

\* C8: a path mentioning 'client' is client, else one mentioning 'server' is
\* server, every other path is shared; the result is one of the three.
C8_ContextPriority ==
    fnDone =>
        /\ fnOut \in {"client", "server", "shared"}
        /\ C8_Mentions(fnArg, TextClient) => fnOut = "client"
        /\ ~C8_Mentions(fnArg, TextClient) /\ C8_Mentions(fnArg, TextServer)
              => fnOut = "server"
        /\ ~C8_Mentions(fnArg, TextClient) /\ ~C8_Mentions(fnArg, TextServer)
              => fnOut = "shared"

\* a path naming both the client and the server has been classified
C8_Witness ==
    /\ fnDone
    /\ fnArg = <<"S","e","r","v","e","r","/","c","l","i","e","n","t">>
    /\ fnOut = "client"

-----------------------------------------------------------------------------
(* Files for the scanner, written from items the way the patterns of the   *)
(* README write them: a documentation line is a marker, a blank and its    *)
(* content; a tag is its word, its fields and an optional description.     *)

Note(rich, text) ==
    [kind |-> "comment", rich |-> rich, tag |-> "none",
     name |-> <<>>, type |-> <<>>, description |-> text]

ParamTag(rich, name, type, description) ==
    [kind |-> "comment", rich |-> rich, tag |-> "param",
     name |-> name, type |-> type, description |-> description]

ReturnTag(rich, type, description) ==
    [kind |-> "comment", rich |-> rich, tag |-> "return",
     name |-> <<>>, type |-> type, description |-> description]

Blank == [kind |-> "blank"]

Code == [kind |-> "code"]

Header(name, params, local, commented) ==
    [kind |-> "function", name |-> name, params |-> params,
     local |-> local, commented |-> commented]

ExportCall(name, ref) == [kind |-> "export", name |-> name, ref |-> ref]

\* the line of an export call whose second argument is a function literal
\* with these parameters; layout tells how much of the literal is on the line:
\* "same" the whole header, "split" the header up to its last parameter,
\* "keyword" the word function alone, "later" nothing of it
InlineCall(name, params, layout) ==
    [kind |-> "inline", name |-> name, params |-> params, layout |-> layout]

\* the line after an inline call: what its layout left of the header
InlineRest(params, layout) == [kind |-> "rest", params |-> params, layout |-> layout]

\* the line that closes the literal and the call
InlineClose == [kind |-> "close"]

\* the text of a comment item after its marker
Content(item) ==
    LET tail == IF item.description = <<>> THEN <<>> ELSE <<" ">> \o item.description
    IN  CASE item.tag = "none"   -> item.description
          [] item.tag = "param"  ->
                 TextParamTag \o <<" ">> \o item.name \o <<" ">> \o item.type \o tail
          [] item.tag = "return" -> TextReturnTag \o <<" ">> \o item.type \o tail

\* parameter names separated by ", "
RECURSIVE ParamList(_)
ParamList(params) ==
    IF params = <<>> THEN <<>>
    ELSE IF Len(params) = 1 THEN params[1]
    ELSE params[1] \o <<",", " ">> \o ParamList(Tail(params))

\* params without its last element
Front(params) == SubSeq(params, 1, Len(params) - 1)

\* the part of the literal's header an inline call has on its own line
InlineHead(item) ==
    CASE item.layout = "same"    ->
             <<" ">> \o TextFunctionCall \o ParamList(item.params) \o <<")">>
      [] item.layout = "split"   ->
             <<" ">> \o TextFunctionCall \o ParamList(Front(item.params))
                \o (IF Len(item.params) > 1 THEN <<",">> ELSE <<>>)
      [] item.layout = "keyword" -> <<" ">> \o TextFunction
      [] item.layout = "later"   -> <<>>

\* the part of the literal's header on the line after the call
InlineTail(item) ==
    CASE item.layout = "same"    -> <<>>
      [] item.layout = "split"   ->
             (IF item.params = <<>> THEN <<>> ELSE item.params[Len(item.params)])
                \o <<")">>
      [] item.layout = "keyword" -> <<"(">> \o ParamList(item.params) \o <<")">>
      [] item.layout = "later"   ->
             TextFunctionCall \o ParamList(item.params) \o <<")">>

\* the line of the file an item stands for
Render(item) ==
    CASE item.kind = "comment"  ->
             (IF item.rich THEN ThreeDashes ELSE TwoDashes) \o <<" ">> \o Content(item)
      [] item.kind = "blank"    -> <<>>
      [] item.kind = "code"     -> <<" ", " ", "e", "n", "d">>
      [] item.kind = "function" ->
             (IF item.commented THEN TwoDashes \o <<" ">> ELSE <<>>)
                \o (IF item.local THEN <<"l","o","c","a","l"," ">> ELSE <<>>)
                \o TextFunction \o <<" ">> \o item.name
                \o <<"(">> \o ParamList(item.params) \o <<")">>
      [] item.kind = "export"   ->
             TextExportsCall \o <<"'">> \o item.name \o <<"'", ",", " ">>
                \o item.ref \o <<")">>
      [] item.kind = "inline"   ->
             TextExportsCall \o <<"'">> \o item.name \o <<"'", ",">>
                \o InlineHead(item)
      [] item.kind = "rest"     -> <<" ", " ">> \o InlineTail(item)
      [] item.kind = "close"    -> <<"e", "n", "d", ")">>

RenderAll(items) == [k \in 1..Len(items) |-> Render(items[k])]

TextString  == <<"s","t","r","i","n","g">>
TextNumber  == <<"n","u","m","b","e","r">>
TextBoolean == <<"b","o","o","l","e","a","n">>
TextJobName == <<"J","o","b"," ","n","a","m","e">>
TextOk      == <<"o","k">>
TextAdds    == <<"A","d","d","s"," ","a"," ","j","o","b",".">>
TextNote    == <<"n","o","t","e">>

RichNote    == Note(TRUE, TextAdds)
PlainNote   == Note(FALSE, TextNote)
RichParamA  == ParamTag(TRUE, <<"a">>, TextString, TextJobName)
RichParamB  == ParamTag(TRUE, <<"b">>, TextNumber, <<>>)
PlainParamB == ParamTag(FALSE, <<"b">>, TextNumber, <<>>)
RichReturn  == ReturnTag(TRUE, TextBoolean, TextOk)

-----------------------------------------------------------------------------
(* One call of extractDocumentation on the lines above a declaration.      *)

\* how many lines stand above the declaration
MaxBlock == 3

DocItems == { RichNote, PlainNote, RichParamA, PlainParamB, RichReturn, Blank, Code }

DocBlocks == SeqsUpTo(DocItems, MaxBlock)

\* the anchor: the declaration the block stands above
Anchor == Header(<<"F">>, << <<"a">> >>, FALSE, FALSE)

DocArgs ==
    { [items |-> items,
       lines |-> RenderAll(Append(items, Anchor)),
       startIndex |-> Len(items)] : items \in DocBlocks }

InitDoc ==
    /\ fnArg \in DocArgs
    /\ fnOut = ""
    /\ fnDone = FALSE
    /\ globalStates = <<>> /\ playerStates = <<>> /\ localPlayerStates = <<>>
    /\ allStates = <<>> /\ generated = FALSE /\ calls = 0
    /\ seen = {} /\ revisited = {} /\ keepLog = FALSE /\ log = <<>>
    /\ given = <<>> /\ scanLines = <<>> /\ scanPath = <<>> /\ scanContext = ""
    /\ idx = 0 /\ exports = <<>> /\ merged = <<>> /\ pc = "idle"
    /\ generators = <<>> /\ luaFiles = <<>> /\ fileIdx = 0 /\ dpc = "idle"
    /\ scanned = <<>> /\ totals = <<>> /\ reported = <<>> /\ scans = <<>>

ExtractDocumentation ==
    /\ ~fnDone
    /\ fnOut' = extractDocumentation(fnArg.lines, fnArg.startIndex)
    /\ fnDone' = TRUE
    /\ UNCHANGED <<fnArg, aggVars, scanVars, drvVars>>

SpecDoc == InitDoc /\ [][ExtractDocumentation]_vars

-----------------------------------------------------------------------------
(* Properties of extractDocumentation, stated on the items of the file.    *)

\* the comment items that stand directly above the declaration, with no
\* other line between them and it
BlockLen(items) ==
    Greatest({ n \in 0..Len(items) :
                 \A k \in (Len(items) - n + 1)..Len(items) : items[k].kind = "comment" })

Block(items) == SubSeq(items, Len(items) - BlockLen(items) + 1, Len(items))

Contents(block) == [k \in 1..Len(block) |-> Content(block[k])]

IsParamTag(item) == item.tag = "param"

IsReturnTag(item) == item.tag = "return"

\* what the tags of a block say, in the order they are written
AuthoredParams(block) ==
    LET tags == SelectSeq(block, IsParamTag)
    IN  [k \in 1..Len(tags) |->
            [name |-> tags[k].name, type |-> tags[k].type,
             description |-> tags[k].description]]

AuthoredReturns(block) ==
    LET tags == SelectSeq(block, IsReturnTag)
    IN  [k \in 1..Len(tags) |->
            [type |-> tags[k].type, description |-> tags[k].description]]

\* the free text of a block before its first tag, one line per item
AuthoredDescription(block) ==
    LET firstTag == Least({ k \in 1..Len(block) : block[k].tag # "none" }
                              \cup {Len(block) + 1})
    IN  Join([k \in 1..(firstTag - 1) |-> block[k].description], "\n")

HasRich(block) == \E k \in 1..Len(block) : block[k].rich

HasPlain(block) == \E k \in 1..Len(block) : ~block[k].rich

\* C4: of the comment block directly above the declaration, every line is
\* collected when the block mixes three-dash and two-dash lines, and no line
\* is collected (no description, no params, no returns) when the block has
\* two-dash lines only.
C4_CommentPrecedence ==
    fnDone =>
        LET block == Block(fnArg.items)
        IN  /\ HasRich(block) /\ HasPlain(block)
                => fnOut.rawComments = Contents(block)
            /\ HasPlain(block) /\ ~HasRich(block)
                => /\ fnOut.rawComments = <<>>
                   /\ fnOut.description = <<>>
                   /\ fnOut.params = <<>>
                   /\ fnOut.returns = <<>>

\* the items below the blank line nearest to the declaration
BelowBlank(items) ==
    LET b == Greatest({ k \in 1..Len(items) : items[k].kind = "blank" })
    IN  SubSeq(items, b + 1, Len(items))

\* C5: when a blank line stands above the declaration, the walk stops at the
\* nearest one: the lines collected, the description, the params and the
\* returns are those of the comment lines between that blank line and the
\* declaration, and nothing at or above the blank line contributes.
C5_BlankLineEndsBlock ==
    fnDone /\ (\E k \in 1..Len(fnArg.items) : fnArg.items[k].kind = "blank") =>
        LET block == Block(BelowBlank(fnArg.items))
        IN  /\ fnOut.rawComments = Contents(block)
            /\ fnOut.description = AuthoredDescription(block)
            /\ fnOut.params = AuthoredParams(block)
            /\ fnOut.returns = AuthoredReturns(block)

\* a description line, a blank line and a @param line above the declaration:
\* the block is the @param line alone and the description is empty
C5_Witness ==
    /\ fnDone
    /\ fnArg.items = <<RichNote, Blank, RichParamA>>
    /\ fnOut.rawComments = <<Content(RichParamA)>>
    /\ fnOut.description = <<>>
    /\ fnOut.params = <<[name |-> <<"a">>, type |-> TextString,
                         description |-> TextJobName]>>

-----------------------------------------------------------------------------
(* One run of LuaParser.parse on a file, followed by the merge of the      *)
(* parameters of every export it returned.                                 *)

\* how many lines a file written freely from ScanItems has
MaxItems == 3

HeaderFa    == Header(<<"F">>, << <<"a">> >>, FALSE, FALSE)
LocalFab    == Header(<<"F">>, << <<"a">>, <<"b">> >>, TRUE, FALSE)
CommentedFb == Header(<<"F">>, << <<"b">> >>, FALSE, TRUE)
HeaderGb    == Header(<<"G">>, << <<"b">> >>, FALSE, FALSE)
ExportEF    == ExportCall(<<"E">>, <<"F">>)
ExportFF    == ExportCall(<<"F">>, <<"F">>)
RichReturnString == ReturnTag(TRUE, TextString, <<>>)

ScanItems ==
    { HeaderFa, LocalFab, CommentedFb, HeaderGb, ExportEF, RichNote, Blank, Code }

ShortFiles == UNION { [1..k -> ScanItems] : k \in 1..MaxItems }

\* a declaration under a three-dash block and the export that refers to it
DocumentedFiles ==
    { note \o tags \o returns
           \o <<Header(<<"F">>, params, FALSE, FALSE)>> \o body \o <<ExportFF>> :
        note \in { <<>>, <<RichNote>> },
        tags \in { <<>>, <<RichParamA>>, <<RichParamB>>,
                   <<RichParamA, RichParamB>>, <<RichParamB, RichParamA>> },
        returns \in { <<>>, <<RichReturn>>, <<RichReturn, RichReturnString>>,
                      <<RichReturnString, RichReturn>> },
        params \in { <<>>, << <<"a">> >>, << <<"a">>, <<"b">> >> },
        body \in { <<>>, <<Code>> } }

\* a declaration and its export with n lines between them
FarFile(n) == <<HeaderFa>> \o [k \in 1..n |-> Code] \o <<ExportEF>>

\* the declaration on the last line the search reaches, and one line above it
LongFiles == { FarFile(SearchWindow - 1), FarFile(SearchWindow) }

Files == ShortFiles \cup DocumentedFiles \cup LongFiles

ScanPaths == { <<"s","e","r","v","e","r","/","m","a","i","n",".","l","u","a">>, <<"c","l","i","e","n","t","/","m","a","i","n",".","l","u","a">> }

InitParse ==
    /\ given \in Files
    /\ scanLines = RenderAll(given)
    /\ scanPath \in ScanPaths
    /\ scanContext = ""
    /\ idx = 0
    /\ exports = <<>>
    /\ merged = <<>>
    /\ pc = "idle"
    /\ generators = <<>> /\ luaFiles = <<>> /\ fileIdx = 0 /\ dpc = "idle"
    /\ scanned = <<>> /\ totals = <<>> /\ reported = <<>> /\ scans = <<>>
    /\ fnArg = <<>> /\ fnOut = "" /\ fnDone = FALSE
    /\ globalStates = <<>> /\ playerStates = <<>> /\ localPlayerStates = <<>>
    /\ allStates = <<>> /\ generated = FALSE /\ calls = 0
    /\ seen = {} /\ revisited = {} /\ keepLog = FALSE /\ log = <<>>

\* if (exportData) this.exports.push(exportData)
Pushed(list, exportData) == IF exportData.ok THEN Append(list, exportData) ELSE list

\* parse, up to its loop
ParseBegin ==
    /\ pc = "idle"
    /\ exports' = <<>>
    /\ scanContext' = detectContext(scanPath)
    /\ idx' = 0
    /\ pc' = "scan"
    /\ UNCHANGED <<given, scanLines, scanPath, merged, aggVars, fnVars, drvVars>>

\* one iteration of the loop of parse
ParseLine ==
    /\ pc = "scan"
    /\ idx < Len(scanLines)
    /\ exports' = IF Includes(Trim(At(scanLines, idx)), TextExportsCall)
                  THEN Pushed(exports, parseExport(scanLines, idx, scanContext))
                  ELSE exports
    /\ idx' = idx + 1
    /\ UNCHANGED <<given, scanLines, scanPath, scanContext, merged, pc, aggVars, fnVars,
                   drvVars>>

\* the loop of parse is over
ParseReturn ==
    /\ pc = "scan"
    /\ idx = Len(scanLines)
    /\ pc' = "returned"
    /\ UNCHANGED <<given, scanLines, scanPath, scanContext, idx, exports, merged,
                   aggVars, fnVars, drvVars>>

\* generateExportDefinition, as far as the parameters: one merge per export
GenerateDefinitions ==
    /\ pc = "returned"
    /\ merged' = [k \in 1..Len(exports) |->
                     mergeParameters(exports[k].parameters,
                                     exports[k].documentation.params)]
    /\ pc' = "generated"
    /\ UNCHANGED <<given, scanLines, scanPath, scanContext, idx, exports,
                   aggVars, fnVars, drvVars>>

NextParse == ParseBegin \/ ParseLine \/ ParseReturn \/ GenerateDefinitions

SpecParse == InitParse /\ [][NextParse]_vars

-----------------------------------------------------------------------------
(* Properties of the export scan, stated on the items of the file.         *)

\* the export calls of the file, as positions in given
ExportItems == { e \in 1..Len(given) : given[e].kind = "export" }

\* the position of the k-th export call of the file
KthExport(k) ==
    CHOOSE e \in ExportItems : Cardinality({ x \in ExportItems : x < e }) = k - 1

\* the headers the export call at e can refer to: declarations of the name
\* it references, not commented out, at most SearchWindow lines above it
Eligible(e) ==
    { h \in 1..(e - 1) : /\ given[h].kind = "function"
                         /\ ~given[h].commented
                         /\ given[h].name = given[e].ref
                         /\ e - h <= SearchWindow }

\* the parameter list of a header as a signature
SignatureOf(item) ==
    [k \in 1..Len(item.params) |-> [name |-> item.params[k], type |-> TextAny]]

\* C9: the signature parameters of the record of a reference export are the
\* parameter list of the nearest eligible header above the export line; when
\* no header is eligible, the parameter list of no header above it (commented
\* out, of another name, or further than the window) is the signature.
C9_NearestHeader ==
    \A k \in 1..Len(exports) :
        LET e == KthExport(k)
        IN  /\ Eligible(e) # {}
                => exports[k].parameters = SignatureOf(given[Greatest(Eligible(e))])
            /\ Eligible(e) = {}
                => \A h \in 1..(e - 1) :
                       given[h].kind = "function"
                           => exports[k].parameters # SignatureOf(given[h])

\* a commented-out header of the name stands between the header and the
\* export: the signature is the header's
C9_Witness ==
    /\ pc = "returned"
    /\ given = <<HeaderFa, CommentedFb, ExportEF>>
    /\ Len(exports) = 1
    /\ exports[1].parameters = <<[name |-> <<"a">>, type |-> TextAny]>>

\* C10: every export call the loop has passed has its record, in order, and
\* the record of a reference with no eligible header carries the export name
\* and an empty signature parameter list.
C10_UnresolvedKept ==
    /\ Len(exports) = Cardinality({ e \in ExportItems : e <= idx })
    /\ \A k \in 1..Len(exports) :
           LET e == KthExport(k)
           IN  Eligible(e) = {}
                   => /\ exports[k].name = given[e].name
                      /\ exports[k].parameters = <<>>

\* the only header above the export declares another name
C10_Witness ==
    /\ pc = "returned"
    /\ given = <<HeaderGb, ExportEF>>
    /\ Len(exports) = 1
    /\ exports[1].name = <<"E">>
    /\ exports[1].parameters = <<>>

\* the file is one documented declaration and its export: one export call,
\* an eligible header, a block of three-dash lines directly above the nearest
\* one, and @param tags that name the parameters of the header, each once
Documented ==
    /\ Cardinality(ExportItems) = 1
    /\ LET e == KthExport(1)
       IN  /\ Eligible(e) # {}
           /\ LET h == Greatest(Eligible(e))
                  block == Block(SubSeq(given, 1, h - 1))
                  tags == AuthoredParams(block)
              IN  /\ block # <<>>
                  /\ ~HasPlain(block)
                  /\ Len(tags) = Len(given[h].params)
                  /\ \A j \in 1..Len(given[h].params) :
                         \E t \in 1..Len(tags) : tags[t].name = given[h].params[j]

\* the block above the header of a documented file
DocumentedBlock ==
    Block(SubSeq(given, 1, Greatest(Eligible(KthExport(1))) - 1))

\* the parameter of the signature with what its tag says
Tagged(name, tags) ==
    LET t == CHOOSE t \in 1..Len(tags) : tags[t].name = name
    IN  [name |-> name, type |-> tags[t].type, description |-> tags[t].description]

\* C6: for a documented file under a server path, scan and merge give one
\* record: its name is the export name, its side is server, its merged
\* parameters are those of the header in the header's order, each with the
\* type and description of its tag, its returns are the @return tags in the
\* order written and its description is the text before the first tag.
C6_DocumentedExport ==
    pc = "generated" /\ scanContext = "server" /\ Documented =>
        LET e == KthExport(1)
            header == given[Greatest(Eligible(e))]
            tags == AuthoredParams(DocumentedBlock)
        IN  /\ Len(exports) = 1
            /\ exports[1].name = given[e].name
            /\ exports[1].context = "server"
            /\ merged[1] = [j \in 1..Len(header.params) |->
                               Tagged(header.params[j], tags)]
            /\ exports[1].documentation.returns = AuthoredReturns(DocumentedBlock)
            /\ exports[1].description = AuthoredDescription(DocumentedBlock)

\* the scenario of the README: description, @param, @return, header, export
C6_Witness ==
    /\ pc = "generated"
    /\ scanContext = "server"
    /\ given = <<RichNote, RichParamA, RichReturn, HeaderFa, ExportFF>>
    /\ Documented
    /\ merged = << <<[name |-> <<"a">>, type |-> TextString,
                      description |-> TextJobName]>> >>
    /\ exports[1].documentation.returns =
           <<[type |-> TextBoolean, description |-> TextOk]>>
    /\ exports[1].description = TextAdds

-----------------------------------------------------------------------------
(* One run of parse on a file whose export call takes a function literal.  *)

InlineLayouts == { "same", "split", "keyword", "later" }

InlineParams == { <<>>, << <<"a">> >>, << <<"a">>, <<"b">> >> }

\* the call, the rest of its header, the body and the closing line, under
\* nothing, a line of code or a documentation line
InlineFiles ==
    { above \o <<InlineCall(<<"E">>, params, layout), InlineRest(params, layout)>>
            \o body \o <<InlineClose>> :
        above \in { <<>>, <<Code>>, <<RichNote>> },
        params \in InlineParams,
        layout \in InlineLayouts,
        body \in { <<>>, <<Code>> } }

InitInline ==
    /\ given \in InlineFiles
    /\ scanLines = RenderAll(given)
    /\ scanPath \in ScanPaths
    /\ scanContext = ""
    /\ idx = 0
    /\ exports = <<>>
    /\ merged = <<>>
    /\ pc = "idle"
    /\ generators = <<>> /\ luaFiles = <<>> /\ fileIdx = 0 /\ dpc = "idle"
    /\ scanned = <<>> /\ totals = <<>> /\ reported = <<>> /\ scans = <<>>
    /\ fnArg = <<>> /\ fnOut = "" /\ fnDone = FALSE
    /\ globalStates = <<>> /\ playerStates = <<>> /\ localPlayerStates = <<>>
    /\ allStates = <<>> /\ generated = FALSE /\ calls = 0
    /\ seen = {} /\ revisited = {} /\ keepLog = FALSE /\ log = <<>>

SpecInline == InitInline /\ [][NextParse]_vars

\* the inline call of the file
TheInlineCall ==
    given[CHOOSE e \in 1..Len(given) : given[e].kind = "inline"]

\* C11: an export call with a function literal gives one record whose
\* parameters are those of the literal's header, also when the header is
\* split across lines or starts on the line after the call.
C11_InlineLookAhead ==
    pc = "returned" =>
        /\ Len(exports) = 1
        /\ exports[1].name = TheInlineCall.name
        /\ exports[1].parameters = SignatureOf(TheInlineCall)

-----------------------------------------------------------------------------
(* One call of mergeParameters on the parameters of a signature and the    *)
(* @param tags of a block.                                                 *)

\* how many parameters a signature has
MaxParams == 2

\* how many @param tags a block has
MaxTags == 2

ParamNames == { <<"a">>, <<"b">>, <<"c">> }

DocParamPool ==
    { [name |-> <<"a">>, type |-> TextString, description |-> TextJobName],
      [name |-> <<"a">>, type |-> TextNumber, description |-> <<>>],
      [name |-> <<"b">>, type |-> TextNumber, description |-> <<>>],
      [name |-> <<"c">>, type |-> TextBoolean, description |-> TextOk] }

\* names is what the header was written from, funcParams what
\* parseFunctionSignature reads from the text between its parentheses
MergeArgs ==
    { [names |-> names,
       funcParams |-> parseFunctionSignature(ParamList(names)).parameters,
       docParams |-> docParams] :
        names \in SeqsUpTo(ParamNames, MaxParams),
        docParams \in SeqsUpTo(DocParamPool, MaxTags) }

InitMerge ==
    /\ fnArg \in MergeArgs
    /\ fnOut = ""
    /\ fnDone = FALSE
    /\ globalStates = <<>> /\ playerStates = <<>> /\ localPlayerStates = <<>>
    /\ allStates = <<>> /\ generated = FALSE /\ calls = 0
    /\ seen = {} /\ revisited = {} /\ keepLog = FALSE /\ log = <<>>
    /\ given = <<>> /\ scanLines = <<>> /\ scanPath = <<>> /\ scanContext = ""
    /\ idx = 0 /\ exports = <<>> /\ merged = <<>> /\ pc = "idle"
    /\ generators = <<>> /\ luaFiles = <<>> /\ fileIdx = 0 /\ dpc = "idle"
    /\ scanned = <<>> /\ totals = <<>> /\ reported = <<>> /\ scans = <<>>

MergeParameters ==
    /\ ~fnDone
    /\ fnOut' = mergeParameters(fnArg.funcParams, fnArg.docParams)
    /\ fnDone' = TRUE
    /\ UNCHANGED <<fnArg, aggVars, scanVars, drvVars>>

SpecMerge == InitMerge /\ [][MergeParameters]_vars

\* the positions of the tags that carry a name
TagsNamed(tags, name) == { t \in 1..Len(tags) : tags[t].name = name }

\* the tags that name none of the parameters, in tag order
Unmatched(tags, names) ==
    LET Foreign(tag) == \A k \in 1..Len(names) : names[k] # tag.name
    IN  SelectSeq(tags, Foreign)

\* C12: the merged list starts with the parameters of the signature in
\* signature order, one entry each, carrying the type and description of the
\* tag of the same name (the last one when several tags carry the name) or
\* 'any' and no description without such a tag, and ends with the tags that
\* name no parameter, in tag order.
C12_MergeOrder ==
    fnDone =>
        LET names == fnArg.names
            tags == fnArg.docParams
        IN  /\ Len(fnOut) = Len(names) + Len(Unmatched(tags, names))
            /\ \A k \in 1..Len(names) :
                   /\ fnOut[k].name = names[k]
                   /\ TagsNamed(tags, names[k]) = {}
                          => fnOut[k].type = TextAny /\ fnOut[k].description = <<>>
                   /\ TagsNamed(tags, names[k]) # {}
                          => LET tag == tags[Greatest(TagsNamed(tags, names[k]))]
                             IN  /\ fnOut[k].type = tag.type
                                 /\ fnOut[k].description = tag.description
            /\ SubSeq(fnOut, Len(names) + 1, Len(fnOut)) = Unmatched(tags, names)

\* a tag for one of two parameters, written after a tag that names neither
C12_Witness ==
    /\ fnDone
    /\ fnArg.names = << <<"a">>, <<"b">> >>
    /\ fnArg.docParams =
           <<[name |-> <<"c">>, type |-> TextBoolean, description |-> TextOk],
             [name |-> <<"a">>, type |-> TextString, description |-> TextJobName]>>
    /\ fnOut = <<[name |-> <<"a">>, type |-> TextString, description |-> TextJobName],
                 [name |-> <<"b">>, type |-> TextAny, description |-> <<>>],
                 [name |-> <<"c">>, type |-> TextBoolean, description |-> TextOk]>>


-----------------------------------------------------------------------------
(* TypeGenerator.addExports, as the driver calls it on the generator of a  *)
(* unit (src/unnamed/part_001:4-27, src/src/index.js:142-158).             *)

\* new TypeGenerator(resourceName)
NewTypeGenerator(resourceName) ==
    [name |-> resourceName, clientExports |-> <<>>, serverExports |-> <<>>,
     sharedExports |-> <<>>]

\* the loop body of addExports with every record pushed to the shared list
PushExportShared(generator, exp) ==
    [generator EXCEPT !.sharedExports = Append(@, exp)]

\* the loop body of addExports
PushExport(generator, exp) ==
    IF exp.context = "client"
    THEN [generator EXCEPT !.clientExports = Append(@, exp)]
    ELSE IF exp.context = "server"
         THEN [generator EXCEPT !.serverExports = Append(@, exp)]
         ELSE [generator EXCEPT !.sharedExports = Append(@, exp)]

RECURSIVE addExportsTo(_, _)
addExportsTo(generator, exps) ==
    IF exps = <<>> THEN generator
    ELSE addExportsTo(PushExport(generator, Head(exps)), Tail(exps))

\* resourceGenerators after the get-or-create and the addExports of one file
AddToGenerators(map, resourceName, exps) ==
    LET k == Find(map, resourceName)
    IN  IF k = 0
        THEN Append(map, addExportsTo(NewTypeGenerator(resourceName), exps))
        ELSE [map EXCEPT ![k] = addExportsTo(@, exps)]

MaxAdds == 2

UnitNames == {"r1", "r2"}

\* export records as parse pushes them, of two files of each unit; the same
\* identifier is exported from different files and on different sides
ExportPool ==
    { [name |-> <<"E">>, context |-> "client", filePath |-> "client/a.lua"],
      [name |-> <<"E">>, context |-> "client", filePath |-> "client/b.lua"],
      [name |-> <<"E">>, context |-> "server", filePath |-> "server/a.lua"],
      [name |-> <<"F">>, context |-> "shared", filePath |-> "shared.lua"] }

ExportArrays ==
    { <<r>> : r \in ExportPool } \cup { <<r, q>> : r \in ExportPool, q \in ExportPool }

InitGen ==
    /\ globalStates = <<>>
    /\ playerStates = <<>>
    /\ localPlayerStates = <<>>
    /\ allStates = <<>>
    /\ generated = FALSE
    /\ calls = 0
    /\ seen = {}
    /\ revisited = {}
    /\ keepLog = TRUE
    /\ log = <<>>
    /\ fnArg = <<>> /\ fnOut = "" /\ fnDone = FALSE
    /\ given = <<>> /\ scanLines = <<>> /\ scanPath = <<>> /\ scanContext = ""
    /\ idx = 0 /\ exports = <<>> /\ merged = <<>> /\ pc = "idle"
    /\ generators = <<>> /\ luaFiles = <<>> /\ fileIdx = 0 /\ dpc = "idle"
    /\ scanned = <<>> /\ totals = <<>> /\ reported = <<>> /\ scans = <<>>

\* generator.addExports(exports, filePath) on the generator of the unit
AddExports ==
    \E resourceName \in UnitNames : \E exps \in ExportArrays :
        /\ calls < MaxAdds
        /\ generators' = AddToGenerators(generators, resourceName, exps)
        /\ calls' = calls + 1
        /\ log' = Append(log, [resourceName |-> resourceName, exps |-> exps])
        /\ UNCHANGED <<globalStates, playerStates, localPlayerStates, allStates,
                       generated, seen, revisited, keepLog, fnVars, scanVars,
                       luaFiles, fileIdx, dpc, scanned, totals, reported, scans>>

SpecGen == InitGen /\ [][AddExports]_vars

\* the records added to the generator of a unit, in arrival order
RECURSIVE AddedTo(_, _)
AddedTo(resourceName, callLog) ==
    IF callLog = <<>> THEN <<>>
    ELSE (IF Head(callLog).resourceName = resourceName
          THEN Head(callLog).exps ELSE <<>>)
         \o AddedTo(resourceName, Tail(callLog))

OnClient(exp) == exp.context = "client"

OnServer(exp) == exp.context = "server"

OnNeither(exp) == exp.context \notin {"client", "server"}

\* C13: after any sequence of addExports calls, the three lists of a unit's
\* generator hold every record added to that unit exactly once, each in the
\* list of its side (anything that is neither client nor server in the shared
\* list), in arrival order; records with the same identifier are all kept.
C13_ListsHoldEveryRecord ==
    /\ \A u \in UnitNames :
         (Find(generators, u) = 0) = (AddedTo(u, log) = <<>>)
    /\ \A k \in 1..Len(generators) :
         LET added == AddedTo(generators[k].name, log)
         IN  /\ generators[k].clientExports = SelectSeq(added, OnClient)
             /\ generators[k].serverExports = SelectSeq(added, OnServer)
             /\ generators[k].sharedExports = SelectSeq(added, OnNeither)

\* two calls on one unit have added the same identifier from two files
C13_Witness ==
    /\ Len(log) = 2
    /\ log[1].resourceName = log[2].resourceName
    /\ \E k \in 1..Len(generators) :
         /\ Len(generators[k].clientExports) >= 2
         /\ generators[k].clientExports[1].name = generators[k].clientExports[2].name
         /\ generators[k].clientExports[1].filePath
              # generators[k].clientExports[2].filePath
         /\ Len(generators[k].sharedExports) >= 1

-----------------------------------------------------------------------------
(* LuaParser.parseGlobalStates and LuaParser.parsePlayerStates             *)
(* (src/unnamed/part_003:342-373, 420-479).  Where a quantifier of these   *)
(* expressions can give characters back, the attempts are taken in the     *)
(* order a backtracking matcher takes them.                                *)

TextGlobalStateDot   == <<"G","l","o","b","a","l","S","t","a","t","e",".">>
TextPlayerCall       == <<"P","l","a","y","e","r","(">>
TextDotState         == <<".","s","t","a","t","e">>
TextSetCall          == <<"s","e","t","(">>
TextLocalPlayerState == <<"L","o","c","a","l","P","l","a","y","e","r",".","s","t","a","t","e">>
TextTrue             == <<"t","r","u","e">>

\* the attempt a greedy quantifier reaches first: the one from the greatest k
LastMatch(matches) ==
    LET hits == { k \in DOMAIN matches : matches[k].ok }
    IN  IF hits = {} THEN NoMatch ELSE matches[Greatest(hits)]

\* the match m with the captured name added
Named(m, name) ==
    IF m.ok THEN [ok |-> TRUE, name |-> name, value |-> m.value,
                  hasFlag |-> m.hasFlag, flag |-> m.flag]
    ELSE NoMatch

\* \s*([^)]+) between the second comma and the closing parenthesis at gEnd
StateFlagText(s, g, gEnd) ==
    IF g < gEnd THEN SubSeq(s, g, gEnd - 1) ELSE SubSeq(s, gEnd - 1, gEnd - 1)

\* ([^,]+)(?:,\s*([^)]+))?\) with the value starting at vs: first the whole
\* run up to the comma at R with a third argument, then the longest value
\* that a closing parenthesis follows
StateValueFrom(s, vs, R, gEnd, closes) ==
    IF vs < R /\ CharAt(s, R, ",") /\ gEnd > R + 1 /\ CharAt(s, gEnd, ")")
    THEN [ok |-> TRUE, value |-> SubSeq(s, vs, R - 1), hasFlag |-> TRUE,
          flag |-> StateFlagText(s, AfterSpaces(s, R + 1), gEnd)]
    ELSE IF closes # {}
         THEN [ok |-> TRUE, value |-> SubSeq(s, vs, Greatest(closes) - 1),
               hasFlag |-> FALSE, flag |-> <<>>]
         ELSE NoMatch

StateValueStart(s, vs, R) ==
    StateValueFrom(s, vs, R, AfterNot(s, R + 1, {")"}),
                   { j \in (vs + 1)..(R - 1) : s[j] = ")" })

\* \s*([^,]+)(?:,\s*([^)]+))?\) after the first comma, R being the end of
\* the run of characters that are not commas
StateArgsFrom(s, c, R) ==
    LastMatch([vs \in c..AfterSpaces(s, c) |-> StateValueStart(s, vs, R)])

StateArgsAt(s, c) == StateArgsFrom(s, c, AfterNot(s, c, {","}))

\* ['"]([^'"]+)['"]\s*, with the quotes at q1 and q2 and the comma at q3
StateKeyAt(s, q1, q2, q3) ==
    IF /\ CharIn(s, q1, Quotes)
       /\ q2 > q1 + 1
       /\ CharIn(s, q2, Quotes)
       /\ CharAt(s, q3, ",")
    THEN Named(StateArgsAt(s, q3 + 1), SubSeq(s, q1 + 1, q2 - 1))
    ELSE NoMatch

StateKeyQuoted(s, q1, q2) == StateKeyAt(s, q1, q2, AfterSpaces(s, q2 + 1))

StateKeyFrom(s, q1) == StateKeyQuoted(s, q1, AfterNot(s, q1 + 1, Quotes))

\* [:.]set\(\s*['"]([^'"]+)['"]\s*,\s*([^,]+)(?:,\s*([^)]+))?\) at p
SetCallAt(s, p) ==
    IF CharIn(s, p, {":", "."}) /\ OccursAt(s, TextSetCall, p + 1)
    THEN StateKeyFrom(s, AfterSpaces(s, p + 5))
    ELSE NoMatch

\* [^)]+\)\.state and the call, the argument of Player running from a to b
PlayerSetFrom(s, a, b) ==
    IF b > a /\ CharAt(s, b, ")") /\ OccursAt(s, TextDotState, b + 1)
    THEN SetCallAt(s, b + 7)
    ELSE NoMatch

PlayerSetAt(s, k) ==
    IF OccursAt(s, TextPlayerCall, k)
    THEN PlayerSetFrom(s, k + 7, AfterNot(s, k + 7, {")"}))
    ELSE NoMatch

\* line.match(/Player\([^)]+\)\.state[:.]set\(\s*['"]([^'"]+)['"]\s*,\s*([^,]+)(?:,\s*([^)]+))?\)/)
MatchPlayerSet(s) == FirstMatch([k \in 1..Len(s) |-> PlayerSetAt(s, k)])

LocalPlayerSetAt(s, k) ==
    IF OccursAt(s, TextLocalPlayerState, k) THEN SetCallAt(s, k + 17) ELSE NoMatch

\* line.match(/LocalPlayer\.state[:.]set\(\s*['"]([^'"]+)['"]\s*,\s*([^,]+)(?:,\s*([^)]+))?\)/)
MatchLocalPlayerSet(s) == FirstMatch([k \in 1..Len(s) |-> LocalPlayerSetAt(s, k)])

\* the record pushed for a match of either expression
StateRecord(m, context, filePath) ==
    [name |-> m.name, type |-> inferTypeFromValue(Trim(m.value)),
     context |-> context, filePath |-> filePath, value |-> Trim(m.value),
     replicated |-> (m.hasFlag /\ Trim(m.flag) = TextTrue)]

StatePushed(m, context, filePath) ==
    IF m.ok THEN <<StateRecord(m, context, filePath)>> ELSE <<>>

\* what one iteration of the loop of parsePlayerStates pushes to each list
PlayerStatesOn(line, context, filePath) ==
    IF StartsWith(line, TwoDashes)
    THEN [playerStates |-> <<>>, localPlayerStates |-> <<>>]
    ELSE [playerStates |-> StatePushed(MatchPlayerSet(line), context, filePath),
          localPlayerStates |->
              StatePushed(MatchLocalPlayerSet(line), context, filePath)]

PlayerStatesJoin(first, rest) ==
    [playerStates |-> first.playerStates \o rest.playerStates,
     localPlayerStates |-> first.localPlayerStates \o rest.localPlayerStates]

RECURSIVE PlayerStatesFrom(_, _, _, _)
PlayerStatesFrom(lines, i, context, filePath) ==
    IF i >= Len(lines) THEN [playerStates |-> <<>>, localPlayerStates |-> <<>>]
    ELSE PlayerStatesJoin(PlayerStatesOn(Trim(At(lines, i)), context, filePath),
                          PlayerStatesFrom(lines, i + 1, context, filePath))

parsePlayerStates(lines, filePath) ==
    PlayerStatesFrom(lines, 0, detectContext(filePath), filePath)

\* the value taken as (.*): an assignment without a value matches too
GlobalValueFromAny(s, starts) ==
    IF starts = {} THEN [ok |-> TRUE, value |-> <<>>]
    ELSE [ok |-> TRUE, value |-> TailFrom(s, Greatest(starts))]

\* \s*(.+) after the equals sign at e, starts being where (.+) can begin
GlobalValueFrom(s, starts) ==
    IF starts = {} THEN NoMatch
    ELSE [ok |-> TRUE, value |-> TailFrom(s, Greatest(starts))]

GlobalValueAt(s, e, v0) ==
    GlobalValueFrom(s, { q \in (e + 1)..v0 :
                           q <= Len(s) /\ s[q] \notin LineTerminators })

GlobalNamed(m, name) ==
    IF m.ok THEN [ok |-> TRUE, name |-> name, value |-> m.value] ELSE NoMatch

\* (\w+)\s*=\s*(.+) with the name running from a to w and the sign at e
GlobalNameAt(s, a, w, e) ==
    IF w > a /\ CharAt(s, e, "=")
    THEN GlobalNamed(GlobalValueAt(s, e, AfterSpaces(s, e + 1)), SubSeq(s, a, w - 1))
    ELSE NoMatch

GlobalNameFrom(s, a, w) == GlobalNameAt(s, a, w, AfterSpaces(s, w))

GlobalStateAt(s, k) ==
    IF OccursAt(s, TextGlobalStateDot, k)
    THEN GlobalNameFrom(s, k + 12, AfterWord(s, k + 12))
    ELSE NoMatch

\* line.match(/GlobalState\.(\w+)\s*=\s*(.+)/)
MatchGlobalState(s) == FirstMatch([k \in 1..Len(s) |-> GlobalStateAt(s, k)])

GlobalRecord(m, context, filePath) ==
    [name |-> m.name, type |-> inferTypeFromValue(Trim(m.value)),
     context |-> context, filePath |-> filePath, value |-> Trim(m.value)]

GlobalPushed(m, context, filePath) ==
    IF m.ok THEN <<GlobalRecord(m, context, filePath)>> ELSE <<>>

\* what one iteration of the loop of parseGlobalStates pushes
GlobalStatesOn(line, context, filePath) ==
    IF StartsWith(line, TwoDashes) THEN <<>>
    ELSE GlobalPushed(MatchGlobalState(line), context, filePath)

RECURSIVE GlobalStatesFrom(_, _, _, _)
GlobalStatesFrom(lines, i, context, filePath) ==
    IF i >= Len(lines) THEN <<>>
    ELSE GlobalStatesOn(Trim(At(lines, i)), context, filePath)
         \o GlobalStatesFrom(lines, i + 1, context, filePath)

parseGlobalStates(lines, filePath) ==
    GlobalStatesFrom(lines, 0, detectContext(filePath), filePath)

\* what one iteration of the loop of parse pushes
ExportsOn(lines, i, context) ==
    IF Includes(Trim(At(lines, i)), TextExportsCall)
    THEN Pushed(<<>>, parseExport(lines, i, context))
    ELSE <<>>

RECURSIVE ExportsFrom(_, _, _)
ExportsFrom(lines, i, context) ==
    IF i >= Len(lines) THEN <<>>
    ELSE ExportsOn(lines, i, context) \o ExportsFrom(lines, i + 1, context)

\* parse(content, filePath) in one step
parse(lines, filePath) == ExportsFrom(lines, 0, detectContext(filePath))

-----------------------------------------------------------------------------
(* The three scans of one file, as the driver calls them                   *)
(* (src/src/index.js:137-140), on files of state lines written in the      *)
(* forms of src/README.md:100-118.                                         *)

\* entity:set("key", value, flag), the flag left out when it is empty
StateSet(entity, key, value, flag, commented) ==
    [kind |-> "state", form |-> "set", entity |-> entity, key |-> key,
     value |-> value, flag |-> flag, commented |-> commented]

\* entity.key = value
StateAssign(entity, key, value, commented) ==
    [kind |-> "state", form |-> "assign", entity |-> entity, key |-> key,
     value |-> value, flag |-> <<>>, commented |-> commented]

\* a line given as its text, which none of the scans is meant to recognise
Malformed(text) == [kind |-> "text", text |-> text]

\* the state bag a state item is written on
StateOwner(item) ==
    CASE item.entity = "Player" /\ item.form = "set" ->
             TextPlayerCall \o <<"s","o","u","r","c","e",")">> \o TextDotState
      [] item.entity = "Player" /\ item.form = "assign" ->
             TextPlayerCall \o <<"p","l","a","y","e","r","I","d",")">> \o TextDotState
      [] item.entity = "LocalPlayer" -> TextLocalPlayerState
      [] item.entity = "GlobalState" -> <<"G","l","o","b","a","l","S","t","a","t","e">>

StateLine(item) ==
    (IF item.commented THEN TwoDashes \o <<" ">> ELSE <<>>)
       \o StateOwner(item)
       \o (IF item.form = "set"
           THEN <<":">> \o TextSetCall \o <<"\"">> \o item.key \o <<"\"", ",", " ">>
                   \o item.value
                   \o (IF item.flag = <<>> THEN <<>> ELSE <<",", " ">> \o item.flag)
                   \o <<")">>
           ELSE <<".">> \o item.key \o <<" ", "=", " ">> \o item.value)

\* the line of the file an item stands for, state lines included
RenderLine(item) ==
    CASE item.kind = "state" -> StateLine(item)
      [] item.kind = "text"  -> item.text
      [] OTHER               -> Render(item)

RenderLines(items) == [k \in 1..Len(items) |-> RenderLine(items[k])]

TextFalse == <<"f","a","l","s","e">>
TextBusy  == <<"i","n","v","_","b","u","s","y">>
TextDead  == <<"d","e","a","d">>
TextSunny == <<"\"","s","u","n","n","y","\"">>

StateKeys == { TextBusy, TextDead }

\* the four forms of src/README.md:108-118, with and without the third
\* argument, on a line of code and on a commented-out line
EntityItems ==
    { StateSet(entity, key, TextFalse, flag, commented) :
        entity \in {"Player", "LocalPlayer"}, key \in StateKeys,
        flag \in {<<>>, TextTrue, TextFalse}, commented \in BOOLEAN }
    \cup
    { StateAssign(entity, key, TextTrue, commented) :
        entity \in {"Player", "LocalPlayer"}, key \in StateKeys,
        commented \in BOOLEAN }

\* the form of src/README.md:103-105
GlobalItems ==
    { StateAssign("GlobalState", key, value, commented) :
        key \in StateKeys, value \in {<<"5">>, TextSunny}, commented \in BOOLEAN }

\* lines that look like a state write or an export call and are not one
MalformedItems ==
    { Malformed(<<"P","l","a","y","e","r","(","s","o","u","r","c","e",")",".","s","t","a","t","e",":","s","e","t","(","\"","d","e","a","d","\"",")">>),
      Malformed(<<"L","o","c","a","l","P","l","a","y","e","r",".","s","t","a","t","e",":","s","e","t","(","d","e","a","d",","," ","t","r","u","e",")">>),
      Malformed(<<"G","l","o","b","a","l","S","t","a","t","e","."," ","="," ","5">>),
      Malformed(<<"G","l","o","b","a","l","S","t","a","t","e",".","d","e","a","d"," ","=">>),
      Malformed(<<"e","x","p","o","r","t","s","(","'","E","'"," ","F",")">>),
      Malformed(<<"e","x","p","o","r","t","s","(","'","'",","," ","F",")">>) }

StateItems ==
    EntityItems \cup GlobalItems \cup MalformedItems \cup {ExportCall(<<"E">>, <<"F">>)}

StateFiles ==
    { <<a>> : a \in StateItems } \cup { <<a, b>> : a \in StateItems, b \in StateItems }

NothingScanned ==
    [done |-> {}, exports |-> <<>>, globalStates |-> <<>>,
     playerStatesResult |-> [playerStates |-> <<>>, localPlayerStates |-> <<>>]]

InitStates ==
    /\ globalStates = <<>>
    /\ playerStates = <<>>
    /\ localPlayerStates = <<>>
    /\ allStates = <<>>
    /\ generated = FALSE
    /\ calls = 0
    /\ seen = {}
    /\ revisited = {}
    /\ keepLog = FALSE
    /\ log = <<>>
    /\ fnArg = <<>> /\ fnOut = "" /\ fnDone = FALSE
    /\ given \in StateFiles
    /\ scanLines = RenderLines(given)
    /\ scanPath \in ScanPaths
    /\ scanContext = ""
    /\ idx = 0 /\ exports = <<>> /\ merged = <<>> /\ pc = "idle"
    /\ generators = <<>> /\ luaFiles = <<>> /\ fileIdx = 0 /\ dpc = "idle"
    /\ scanned = NothingScanned
    /\ totals = <<>> /\ reported = <<>> /\ scans = <<>>

\* const exports = parser.parse(content, filePath)
ScanExports ==
    /\ "parse" \notin scanned.done
    /\ scanned' = [scanned EXCEPT !.done = @ \cup {"parse"},
                                  !.exports = parse(scanLines, scanPath)]
    /\ UNCHANGED <<aggVars, fnVars, scanVars, generators, luaFiles, fileIdx, dpc,
                   totals, reported, scans>>

\* const globalStates = parser.parseGlobalStates(content, filePath)
ScanGlobalStates ==
    /\ "parseGlobalStates" \notin scanned.done
    /\ scanned' = [scanned EXCEPT !.done = @ \cup {"parseGlobalStates"},
                                  !.globalStates = parseGlobalStates(scanLines, scanPath)]
    /\ UNCHANGED <<aggVars, fnVars, scanVars, generators, luaFiles, fileIdx, dpc,
                   totals, reported, scans>>

\* const playerStatesResult = parser.parsePlayerStates(content, filePath)
ScanPlayerStates ==
    /\ "parsePlayerStates" \notin scanned.done
    /\ scanned' = [scanned EXCEPT !.done = @ \cup {"parsePlayerStates"},
                                  !.playerStatesResult =
                                      parsePlayerStates(scanLines, scanPath)]
    /\ UNCHANGED <<aggVars, fnVars, scanVars, generators, luaFiles, fileIdx, dpc,
                   totals, reported, scans>>

NextStates == ScanExports \/ ScanGlobalStates \/ ScanPlayerStates

SpecStates == InitStates /\ [][NextStates]_vars

\* the names of the records of a list
NamesIn(list) == { list[k].name : k \in 1..Len(list) }

\* the per-entity list the state writes of an entity are recorded in
EntityList(result, entity) ==
    IF entity = "Player" THEN result.playerStates ELSE result.localPlayerStates

\* C15: each of the four player-state forms of the README, on a line that is
\* not commented out, produces a per-entity state record with that key: the
\* two Player forms a Player state, the two LocalPlayer forms a LocalPlayer
\* state.
C15_FourForms ==
    "parsePlayerStates" \in scanned.done =>
        \A k \in 1..Len(given) :
            ( /\ given[k].kind = "state"
              /\ given[k].entity \in {"Player", "LocalPlayer"}
              /\ ~given[k].commented )
            => given[k].key \in NamesIn(EntityList(scanned.playerStatesResult,
                                                   given[k].entity))

\* the items of a file that are written in a form the scans recognise
IsExportItem(item) == item.kind = "export"

IsGlobalItem(item) ==
    item.kind = "state" /\ item.entity = "GlobalState" /\ ~item.commented

IsPlayerSet(item) ==
    /\ item.kind = "state" /\ item.entity = "Player"
    /\ item.form = "set" /\ ~item.commented

IsLocalPlayerSet(item) ==
    /\ item.kind = "state" /\ item.entity = "LocalPlayer"
    /\ item.form = "set" /\ ~item.commented

\* a per-entity state written as an assignment, the form C15 is about
IsEntityAssign(item) ==
    /\ item.kind = "state" /\ item.entity \in {"Player", "LocalPlayer"}
    /\ item.form = "assign"

KeyOf(item) == IF item.kind = "export" THEN item.name ELSE item.key

KeysOf(items) == [k \in 1..Len(items) |-> KeyOf(items[k])]

NamesOf(list) == [k \in 1..Len(list) |-> list[k].name]

\* C17: on every content each of parse, parseGlobalStates and
\* parsePlayerStates returns a list (possibly empty); a malformed line yields
\* no record and does not keep the lines after it from being scanned: the
\* records returned are those of the well-formed lines, in the order of the
\* lines.
C17_MalformedLinesSkipped ==
    (\A k \in 1..Len(given) : ~IsEntityAssign(given[k])) =>
        /\ "parse" \in scanned.done =>
              NamesOf(scanned.exports) = KeysOf(SelectSeq(given, IsExportItem))
        /\ "parseGlobalStates" \in scanned.done =>
              NamesOf(scanned.globalStates) = KeysOf(SelectSeq(given, IsGlobalItem))
        /\ "parsePlayerStates" \in scanned.done =>
              /\ NamesOf(scanned.playerStatesResult.playerStates)
                    = KeysOf(SelectSeq(given, IsPlayerSet))
              /\ NamesOf(scanned.playerStatesResult.localPlayerStates)
                    = KeysOf(SelectSeq(given, IsLocalPlayerSet))

\* the three scans have returned on a file whose first line is malformed, the
\* record of its second line among the results
C17_Witness ==
    /\ scanned.done = {"parse", "parseGlobalStates", "parsePlayerStates"}
    /\ Len(given) = 2
    /\ given[1].kind = "text"
    /\ IsGlobalItem(given[2])
    /\ Len(scanned.globalStates) = 1
    /\ scanned.exports = <<>>

-----------------------------------------------------------------------------
(* The driver's loop over the input files (src/src/index.js:117-192): for  *)
(* each file the body of the try block step by step, and the catch.        *)

MaxFiles == 2

\* the statements of the try block a file can fail in: the read and the
\* three scans
TrySteps == {"read", "parse", "parseGlobalStates", "parsePlayerStates"}

\* the statement after a statement of the try block, were each list handed
\* to its aggregator as soon as it is scanned
StepAfterEager(step) ==
    CASE step = "read"                 -> "parse"
      [] step = "parse"                -> "addExports"
      [] step = "addExports"           -> "parseGlobalStates"
      [] step = "parseGlobalStates"    -> "addGlobalStates"
      [] step = "addGlobalStates"      -> "parsePlayerStates"
      [] step = "parsePlayerStates"    -> "addPlayerStates"
      [] step = "addPlayerStates"      -> "addLocalPlayerStates"
      [] step = "addLocalPlayerStates" -> "end"

\* the statement after a statement of the try block
StepAfter(step) ==
    CASE step = "read"                 -> "parse"
      [] step = "parse"                -> "parseGlobalStates"
      [] step = "parseGlobalStates"    -> "parsePlayerStates"
      [] step = "parsePlayerStates"    -> "addExports"
      [] step = "addExports"           -> "addGlobalStates"
      [] step = "addGlobalStates"      -> "addPlayerStates"
      [] step = "addPlayerStates"      -> "addLocalPlayerStates"
      [] step = "addLocalPlayerStates" -> "end"

\* paths of three files of two units; detectResourceName is given by the
\* unit each path is listed with
InputPaths ==
    { [path |-> <<"r","1","/","s","e","r","v","e","r","/","a",".","l","u","a">>,
       resourceName |-> "r1"],
      [path |-> <<"r","1","/","c","l","i","e","n","t","/","b",".","l","u","a">>,
       resourceName |-> "r1"],
      [path |-> <<"r","2","/","c","l","i","e","n","t","/","a",".","l","u","a">>,
       resourceName |-> "r2"] }

\* what a file holds: an export and a write of each kind of state, or an
\* export alone
InputContents ==
    { <<ExportCall(<<"E">>, <<"F">>),
        StateAssign("GlobalState", TextBusy, <<"5">>, FALSE),
        StateSet("Player", TextDead, TextFalse, TextTrue, FALSE),
        StateSet("LocalPlayer", TextBusy, TextFalse, <<>>, FALSE)>>,
      <<ExportCall(<<"E">>, <<"F">>)>> }

\* an input file; fails names the statement of the try block that throws
\* for it, "none" when none does
InputFiles ==
    { [path |-> p.path, resourceName |-> p.resourceName,
       lines |-> RenderLines(items), fails |-> f] :
        p \in InputPaths, items \in InputContents, f \in TrySteps \cup {"none"} }

\* luaFiles: lists of files of different paths
FileLists ==
    { l \in SeqsUpTo(InputFiles, MaxFiles) :
        /\ l # <<>>
        /\ \A i, j \in 1..Len(l) : l[i].path = l[j].path => i = j }

NoTotals ==
    [exports |-> 0, globalStates |-> 0, playerStates |-> 0, localPlayerStates |-> 0]

InitMain ==
    /\ globalStates = <<>>
    /\ playerStates = <<>>
    /\ localPlayerStates = <<>>
    /\ allStates = <<>>
    /\ generated = FALSE
    /\ calls = 0
    /\ seen = {}
    /\ revisited = {}
    /\ keepLog = FALSE
    /\ log = <<>>
    /\ fnArg = <<>> /\ fnOut = "" /\ fnDone = FALSE
    /\ given = <<>> /\ scanLines = <<>> /\ scanPath = <<>> /\ scanContext = ""
    /\ idx = 0 /\ exports = <<>> /\ merged = <<>> /\ pc = "idle"
    /\ generators = <<>>
    /\ luaFiles \in FileLists
    /\ fileIdx = 0
    /\ dpc = "read"
    /\ scanned = NothingScanned
    /\ totals = NoTotals
    /\ reported = <<>>
    /\ scans = <<>>

\* the file the loop is at
CurrentFile == luaFiles[fileIdx + 1]

\* the loop is at this statement of its body and the statement does not throw
AtStep(step) ==
    /\ dpc = step
    /\ fileIdx < Len(luaFiles)
    /\ CurrentFile.fails # step

\* const content = fs.readFileSync(filePath, 'utf-8')
ReadFile ==
    /\ AtStep("read")
    /\ scanned' = NothingScanned
    /\ dpc' = StepAfter("read")
    /\ UNCHANGED <<aggVars, fnVars, scanVars, generators, luaFiles, fileIdx,
                   totals, reported, scans>>

\* const exports = parser.parse(content, filePath)
MainParse ==
    /\ AtStep("parse")
    /\ scanned' = [scanned EXCEPT
                      !.exports = parse(CurrentFile.lines, CurrentFile.path)]
    /\ dpc' = StepAfter("parse")
    /\ UNCHANGED <<aggVars, fnVars, scanVars, generators, luaFiles, fileIdx,
                   totals, reported, scans>>

\* const globalStates = parser.parseGlobalStates(content, filePath)
MainParseGlobalStates ==
    /\ AtStep("parseGlobalStates")
    /\ scanned' = [scanned EXCEPT
                      !.globalStates =
                          parseGlobalStates(CurrentFile.lines, CurrentFile.path)]
    /\ dpc' = StepAfter("parseGlobalStates")
    /\ UNCHANGED <<aggVars, fnVars, scanVars, generators, luaFiles, fileIdx,
                   totals, reported, scans>>

\* const playerStatesResult = parser.parsePlayerStates(content, filePath)
MainParsePlayerStates ==
    /\ AtStep("parsePlayerStates")
    /\ scanned' = [scanned EXCEPT
                      !.playerStatesResult =
                          parsePlayerStates(CurrentFile.lines, CurrentFile.path)]
    /\ dpc' = StepAfter("parsePlayerStates")
    /\ UNCHANGED <<aggVars, fnVars, scanVars, generators, luaFiles, fileIdx,
                   totals, reported, scans>>

\* if (exports.length > 0) { ... generator.addExports(exports, filePath);
\* totalExports += exports.length }
MainAddExports ==
    /\ AtStep("addExports")
    /\ IF Len(scanned.exports) > 0
       THEN /\ generators' = AddToGenerators(generators, CurrentFile.resourceName,
                                             scanned.exports)
            /\ totals' = [totals EXCEPT !.exports = @ + Len(scanned.exports)]
       ELSE UNCHANGED <<generators, totals>>
    /\ dpc' = StepAfter("addExports")
    /\ UNCHANGED <<aggVars, fnVars, scanVars, luaFiles, fileIdx, scanned,
                   reported, scans>>

\* if (globalStates.length > 0) { stateBagGenerator.addGlobalStates(...);
\* totalGlobalStates += globalStates.length }
MainAddGlobalStates ==
    /\ AtStep("addGlobalStates")
    /\ IF Len(scanned.globalStates) > 0
       THEN /\ globalStates' = addGlobalStatesTo(globalStates, scanned.globalStates,
                                                 CurrentFile.resourceName)
            /\ totals' = [totals EXCEPT
                             !.globalStates = @ + Len(scanned.globalStates)]
       ELSE UNCHANGED <<globalStates, totals>>
    /\ dpc' = StepAfter("addGlobalStates")
    /\ UNCHANGED <<playerStates, localPlayerStates, allStates, generated, calls,
                   seen, revisited, keepLog, log, fnVars, scanVars, generators,
                   luaFiles, fileIdx, scanned, reported, scans>>

\* if (playerStatesResult.playerStates.length > 0) { ... }
MainAddPlayerStates ==
    /\ AtStep("addPlayerStates")
    /\ IF Len(scanned.playerStatesResult.playerStates) > 0
       THEN /\ playerStates' =
                   addPlayerStatesTo(playerStates,
                                     scanned.playerStatesResult.playerStates,
                                     CurrentFile.resourceName)
            /\ totals' = [totals EXCEPT
                             !.playerStates =
                                 @ + Len(scanned.playerStatesResult.playerStates)]
       ELSE UNCHANGED <<playerStates, totals>>
    /\ dpc' = StepAfter("addPlayerStates")
    /\ UNCHANGED <<globalStates, localPlayerStates, allStates, generated, calls,
                   seen, revisited, keepLog, log, fnVars, scanVars, generators,
                   luaFiles, fileIdx, scanned, reported, scans>>

\* if (playerStatesResult.localPlayerStates.length > 0) { ... }
MainAddLocalPlayerStates ==
    /\ AtStep("addLocalPlayerStates")
    /\ IF Len(scanned.playerStatesResult.localPlayerStates) > 0
       THEN /\ localPlayerStates' =
                   addLocalPlayerStatesTo(localPlayerStates,
                                          scanned.playerStatesResult.localPlayerStates,
                                          CurrentFile.resourceName)
            /\ totals' = [totals EXCEPT
                             !.localPlayerStates =
                                 @ + Len(scanned.playerStatesResult.localPlayerStates)]
       ELSE UNCHANGED <<localPlayerStates, totals>>
    /\ dpc' = StepAfter("addLocalPlayerStates")
    /\ UNCHANGED <<globalStates, playerStates, allStates, generated, calls,
                   seen, revisited, keepLog, log, fnVars, scanVars, generators,
                   luaFiles, fileIdx, scanned, reported, scans>>

\* catch (error) { console.error(`Error parsing ${filePath}:`, ...) }: the
\* statement the loop is at throws
MainCatch ==
    /\ fileIdx < Len(luaFiles)
    /\ dpc \in TrySteps
    /\ CurrentFile.fails = dpc
    /\ reported' = Append(reported, CurrentFile.path)
    /\ dpc' = "end"
    /\ UNCHANGED <<aggVars, fnVars, scanVars, generators, luaFiles, fileIdx,
                   scanned, totals, scans>>

\* the loop goes on to the next file
MainNextFile ==
    /\ dpc = "end"
    /\ fileIdx' = fileIdx + 1
    /\ dpc' = "read"
    /\ UNCHANGED <<aggVars, fnVars, scanVars, generators, luaFiles, scanned,
                   totals, reported, scans>>

\* the loop is over: the totals are printed
MainTotals ==
    /\ dpc = "read"
    /\ fileIdx = Len(luaFiles)
    /\ dpc' = "done"
    /\ UNCHANGED <<aggVars, fnVars, scanVars, generators, luaFiles, fileIdx,
                   scanned, totals, reported, scans>>

NextMain ==
    \/ ReadFile
    \/ MainParse
    \/ MainParseGlobalStates
    \/ MainParsePlayerStates
    \/ MainAddExports
    \/ MainAddGlobalStates
    \/ MainAddPlayerStates
    \/ MainAddLocalPlayerStates
    \/ MainCatch
    \/ MainNextFile
    \/ MainTotals

SpecMain == InitMain /\ [][NextMain]_vars

\* what the run has gathered
Gathered(gens, g, p, l, t) ==
    [generators |-> gens, globalStates |-> g, playerStates |-> p,
     localPlayerStates |-> l, totals |-> t]

GatherExports(acc, resourceName, exps) ==
    IF exps = <<>> THEN acc
    ELSE [acc EXCEPT !.generators = AddToGenerators(@, resourceName, exps),
                     !.totals.exports = @ + Len(exps)]

GatherGlobalStates(acc, resourceName, states) ==
    IF states = <<>> THEN acc
    ELSE [acc EXCEPT !.globalStates = addGlobalStatesTo(@, states, resourceName),
                     !.totals.globalStates = @ + Len(states)]

GatherPlayerStates(acc, resourceName, result) ==
    [acc EXCEPT
        !.playerStates = addPlayerStatesTo(@, result.playerStates, resourceName),
        !.localPlayerStates =
            addLocalPlayerStatesTo(@, result.localPlayerStates, resourceName),
        !.totals.playerStates = @ + Len(result.playerStates),
        !.totals.localPlayerStates = @ + Len(result.localPlayerStates)]

\* what a file that is read and scanned without a failure contributes
GatherFile(acc, file) ==
    GatherPlayerStates(
        GatherGlobalStates(
            GatherExports(acc, file.resourceName, parse(file.lines, file.path)),
            file.resourceName, parseGlobalStates(file.lines, file.path)),
        file.resourceName, parsePlayerStates(file.lines, file.path))

\* what a run gathers from a list of files none of which fails
RECURSIVE GatherFrom(_, _)
GatherFrom(acc, files) ==
    IF files = <<>> THEN acc
    ELSE GatherFrom(GatherFile(acc, Head(files)), Tail(files))

FileFails(file) == file.fails # "none"

FileSucceeds(file) == file.fails = "none"

PathsOf(files) == [k \in 1..Len(files) |-> files[k].path]

\* how many files the body of the loop has been left for
Visited == IF dpc = "end" THEN fileIdx + 1 ELSE fileIdx

\* C14: when reading or scanning a file fails, that file contributes no
\* record to any aggregator and nothing to any total, the failure is reported
\* for that file only, and the files after it are still processed: at the
\* end of the loop every file has been visited, the aggregators and the
\* totals are those of a run over the files that did not fail, and the
\* reported paths are those of the files that failed, in order.
C14_FailedFileContributesNothing ==
    /\ reported = PathsOf(SelectSeq(SubSeq(luaFiles, 1, Visited), FileFails))
    /\ dpc = "done" =>
         /\ fileIdx = Len(luaFiles)
         /\ Gathered(generators, globalStates, playerStates, localPlayerStates,
                     totals)
              = GatherFrom(Gathered(<<>>, <<>>, <<>>, <<>>, NoTotals),
                           SelectSeq(luaFiles, FileSucceeds))

\* the loop is over; the second scan of the first file failed and the file
\* after it has been counted
C14_Witness ==
    /\ dpc = "done"
    /\ Len(luaFiles) = 2
    /\ luaFiles[1].fails = "parseGlobalStates"
    /\ luaFiles[2].fails = "none"
    /\ reported = <<luaFiles[1].path>>
    /\ totals.exports = 1
    /\ Len(generators) = 1

-----------------------------------------------------------------------------
(* Two runs of LuaParser.parse on the one parser the driver creates        *)
(* (src/src/index.js:117), their steps interleaved.  The parser keeps the  *)
(* list it fills in its field this.exports (src/unnamed/part_003:304,      *)
(* 317, 328, 333); the locals of a run (lines, context, i) are its own.    *)
(* Arrays are objects: heap holds every array made, exports is the one     *)
(* this.exports refers to, and a run returns a reference.                  *)

Scanners == {1, 2}

\* files of one and two lines, exporting different identifiers
RaceFiles ==
    { <<ExportCall(<<"E">>, <<"F">>)>>,
      <<Code, ExportCall(<<"E">>, <<"F">>)>>,
      <<ExportCall(<<"G">>, <<"H">>)>>,
      <<ExportCall(<<"G">>, <<"H">>), Code>> }

RacePaths ==
    <<<<"s","e","r","v","e","r","/","a",".","l","u","a">>,
      <<"c","l","i","e","n","t","/","b",".","l","u","a">>>>

InitRace ==
    /\ globalStates = <<>>
    /\ playerStates = <<>>
    /\ localPlayerStates = <<>>
    /\ allStates = <<>>
    /\ generated = FALSE
    /\ calls = 0
    /\ seen = {}
    /\ revisited = {}
    /\ keepLog = FALSE
    /\ log = <<>>
    /\ fnArg = <<>> /\ fnOut = "" /\ fnDone = FALSE
    /\ given \in { pair \in RaceFiles \X RaceFiles : pair[1] # pair[2] }
    /\ scanLines = <<>> /\ scanPath = <<>> /\ scanContext = ""
    /\ idx = 0
    /\ exports = 1
    /\ merged = <<>> /\ pc = "idle"
    /\ generators = <<>> /\ luaFiles = <<>> /\ fileIdx = 0 /\ dpc = "idle"
    /\ scanned = <<>> /\ totals = <<>> /\ reported = <<>>
    /\ scans = [heap |-> << <<>> >>,
                run |-> [r \in Scanners |->
                            [lines |-> RenderAll(given[r]), filePath |-> RacePaths[r],
                             context |-> "", i |-> 0, pc |-> "idle", result |-> 0]]]

\* this.exports = []; const lines = ...; const context = ...; let i = 0
RaceBegin(r) ==
    /\ scans.run[r].pc = "idle"
    /\ exports' = Len(scans.heap) + 1
    /\ scans' = [scans EXCEPT
                    !.heap = Append(@, <<>>),
                    !.run[r].context = detectContext(scans.run[r].filePath),
                    !.run[r].i = 0,
                    !.run[r].pc = "scan"]
    /\ UNCHANGED <<aggVars, fnVars, given, scanLines, scanPath, scanContext, idx,
                   merged, pc, generators, luaFiles, fileIdx, dpc, scanned, totals,
                   reported>>

\* one iteration of the loop: this.exports.push(exportData)
RaceLine(r) ==
    /\ scans.run[r].pc = "scan"
    /\ scans.run[r].i < Len(scans.run[r].lines)
    /\ scans' = [scans EXCEPT
                    !.heap[exports] =
                        @ \o ExportsOn(scans.run[r].lines, scans.run[r].i,
                                       scans.run[r].context),
                    !.run[r].i = @ + 1]
    /\ UNCHANGED <<aggVars, fnVars, given, scanLines, scanPath, scanContext, idx,
                   exports, merged, pc, generators, luaFiles, fileIdx, dpc, scanned,
                   totals, reported>>

\* return this.exports
RaceReturn(r) ==
    /\ scans.run[r].pc = "scan"
    /\ scans.run[r].i = Len(scans.run[r].lines)
    /\ scans' = [scans EXCEPT !.run[r].result = exports,
                              !.run[r].pc = "returned"]
    /\ UNCHANGED <<aggVars, fnVars, given, scanLines, scanPath, scanContext, idx,
                   exports, merged, pc, generators, luaFiles, fileIdx, dpc, scanned,
                   totals, reported>>

NextRace == \E r \in Scanners : RaceBegin(r) \/ RaceLine(r) \/ RaceReturn(r)

SpecRace == InitRace /\ [][NextRace]_vars

\* the list a run returned, as its caller sees it now
Returned(r) == scans.heap[scans.run[r].result]

\* C16: two scans of different files whose steps interleave on the parser
\* the driver uses each return exactly the records of their own file.
C16_ScansIndependent ==
    \A r \in Scanners :
        scans.run[r].pc = "returned" =>
            NamesOf(Returned(r)) = KeysOf(SelectSeq(given[r], IsExportItem))

-----------------------------------------------------------------------------
(* The tag loop of extractDocumentation (src/unnamed/part_003:615-653) on  *)
(* blocks of three-dash lines: free text, well-formed tags of the three    *)
(* kinds, and lines that start with a tag keyword and fail its expression. *)

\* --- @deprecated text
DeprecatedTag(text) ==
    [kind |-> "text", rich |-> TRUE, tag |-> "deprecated", description |-> text,
     text |-> ThreeDashes \o <<" ">> \o TextDeprecatedTag \o <<" ">> \o text]

\* a three-dash line that starts with the keyword of a tag and does not
\* match the expression of the tag
BrokenTag(tag, text) ==
    [kind |-> "text", rich |-> TRUE, tag |-> tag,
     text |-> ThreeDashes \o <<" ">> \o text]

RichNoteTwo == Note(TRUE, TextNote)

\* @param with a name and no type
BrokenParam == BrokenTag("brokenparam", TextParamTag \o <<" ", "x">>)

\* @returns is not @return followed by a blank
BrokenReturn ==
    BrokenTag("brokenreturn", TextReturnTag \o <<"s", " ">> \o TextBoolean)

TagItems ==
    { RichNote, RichNoteTwo, RichParamA, RichParamB, RichReturn,
      DeprecatedTag(TextNote), BrokenParam, BrokenReturn }

TagArgs ==
    { [items |-> items,
       lines |-> RenderLines(Append(items, Anchor)),
       startIndex |-> Len(items)] : items \in SeqsUpTo(TagItems, MaxBlock) }

InitTags ==
    /\ fnArg \in TagArgs
    /\ fnOut = ""
    /\ fnDone = FALSE
    /\ globalStates = <<>> /\ playerStates = <<>> /\ localPlayerStates = <<>>
    /\ allStates = <<>> /\ generated = FALSE /\ calls = 0
    /\ seen = {} /\ revisited = {} /\ keepLog = FALSE /\ log = <<>>
    /\ given = <<>> /\ scanLines = <<>> /\ scanPath = <<>> /\ scanContext = ""
    /\ idx = 0 /\ exports = <<>> /\ merged = <<>> /\ pc = "idle"
    /\ generators = <<>> /\ luaFiles = <<>> /\ fileIdx = 0 /\ dpc = "idle"
    /\ scanned = <<>> /\ totals = <<>> /\ reported = <<>> /\ scans = <<>>

SpecTags == InitTags /\ [][ExtractDocumentation]_vars

\* C18: only the comment lines before the first tag line (@param, @return,
\* @deprecated) contribute to the description, newline-joined in their order
\* from top to bottom and trimmed; free text after the first tag line never
\* appears in it.
C18_DescriptionBeforeFirstTag ==
    fnDone => fnOut.description = AuthoredDescription(fnArg.items)

\* free text, a tag, free text again: the description is the first text
C18_Witness ==
    /\ fnDone
    /\ Len(fnArg.items) = 3
    /\ fnArg.items[1] = RichNote
    /\ fnArg.items[2].tag = "deprecated"
    /\ fnArg.items[3] = RichNoteTwo
    /\ fnOut.description = TextAdds

\* C19: a comment line that starts with a tag keyword and fails the tag's
\* pattern adds no entry to params or returns, and every other tag line of
\* the block, before or after it, is still parsed: params and returns hold
\* exactly the well-formed tags in authored order.
C19_MalformedTagDropped ==
    fnDone => /\ fnOut.params = AuthoredParams(fnArg.items)
              /\ fnOut.returns = AuthoredReturns(fnArg.items)

\* a @param line without a type between two well-formed @param lines
C19_Witness ==
    /\ fnDone
    /\ fnArg.items = <<RichParamA, BrokenParam, RichParamB>>
    /\ Len(fnOut.params) = 2
    /\ fnOut.params[2].name = <<"b">>

-----------------------------------------------------------------------------
(* The state aggregator fed by three units, its calls recorded             *)
(* (src/README.md:181-206 and the two methods after it).                   *)

OwnerUnits == {"r1", "r2", "r3"}

\* the arrays of one file: a key alone, or two keys
OwnerGlobalArrays ==
    { << GlobalObs("a", <<"5">>, "server") >>,
      << GlobalObs("b", <<"5">>, "server"), GlobalObs("a", <<"5">>, "server") >> }

OwnerEntityArrays ==
    { << EntityObs("a", <<"5">>, "server", FALSE) >>,
      << EntityObs("b", <<"5">>, "server", FALSE),
         EntityObs("a", <<"5">>, "server", TRUE) >> }

InitOwners ==
    /\ globalStates = <<>>
    /\ playerStates = <<>>
    /\ localPlayerStates = <<>>
    /\ allStates = <<>>
    /\ generated = FALSE
    /\ calls = 0
    /\ seen = {}
    /\ revisited = {}
    /\ keepLog = TRUE
    /\ log = <<>>
    /\ fnArg = <<>> /\ fnOut = "" /\ fnDone = FALSE
    /\ given = <<>> /\ scanLines = <<>> /\ scanPath = <<>> /\ scanContext = ""
    /\ idx = 0 /\ exports = <<>> /\ merged = <<>> /\ pc = "idle"
    /\ generators = <<>> /\ luaFiles = <<>> /\ fileIdx = 0 /\ dpc = "idle"
    /\ scanned = <<>> /\ totals = <<>> /\ reported = <<>> /\ scans = <<>>

OwnerAddGlobal ==
    \E resourceName \in OwnerUnits : \E states \in OwnerGlobalArrays :
        addGlobalStates(states, resourceName)

OwnerAddPlayer ==
    \E resourceName \in OwnerUnits : \E states \in OwnerEntityArrays :
        addPlayerStates(states, resourceName)

OwnerAddLocalPlayer ==
    \E resourceName \in OwnerUnits : \E states \in OwnerEntityArrays :
        addLocalPlayerStates(states, resourceName)

NextOwners == OwnerAddGlobal \/ OwnerAddPlayer \/ OwnerAddLocalPlayer

SpecOwners == InitOwners /\ [][NextOwners]_vars

\* the units of the calls that carried an observation of a name to a
\* container, in call order, a unit as often as it called
RECURSIVE Suppliers(_, _, _)
Suppliers(container, name, callLog) ==
    IF callLog = <<>> THEN <<>>
    ELSE (IF /\ Head(callLog).container = container
             /\ \E k \in 1..Len(Head(callLog).states) :
                    Head(callLog).states[k].name = name
          THEN <<Head(callLog).resourceName>> ELSE <<>>)
         \o Suppliers(container, name, Tail(callLog))

\* the positions of s that hold a value no earlier position holds
FirstPositions(s) == { k \in 1..Len(s) : \A j \in 1..(k - 1) : s[j] # s[k] }

\* C20: after any sequence of add calls, the resources list of each entry
\* holds exactly the units that supplied at least one observation of that
\* name in that container, each once, in the order of their first
\* observation.
C20_ResourcesInFirstSeenOrder ==
    \A container \in Containers :
        /\ \A name \in StateNames :
               (Find(MapOf(container), name) = 0)
                   = (Suppliers(container, name, log) = <<>>)
        /\ \A k \in 1..Len(MapOf(container)) :
               LET units == Suppliers(container, MapOf(container)[k].name, log)
                   owners == MapOf(container)[k].resources
               IN  /\ Len(owners) = Cardinality(FirstPositions(units))
                   /\ \A i \in 1..Len(owners) :
                          /\ \E p \in FirstPositions(units) :
                                 /\ units[p] = owners[i]
                                 /\ Cardinality({ q \in FirstPositions(units) : q <= p }) = i

\* a unit has observed a name again after another unit had: it is listed
\* once, before the other
C20_Witness ==
    /\ Len(log) = 3
    /\ log[1].resourceName = "r2"
    /\ log[2].resourceName = "r1"
    /\ log[3].resourceName = "r2"
    /\ Find(globalStates, "a") # 0
    /\ globalStates[Find(globalStates, "a")].resources = <<"r2", "r1">>

-----------------------------------------------------------------------------
(* parseGlobalStates on files that assign to keys of GlobalState and files *)
(* that only read them (src/unnamed/part_003:342-373).                     *)

\* a line of code that reads a key of GlobalState and assigns none
GlobalRead(text) == [kind |-> "text", reads |-> TRUE, text |-> text]

\* if GlobalState.dead == true then
ComparesKey ==
    GlobalRead(<<"i","f"," ","G","l","o","b","a","l","S","t","a","t","e",".","d","e","a","d"," ","=","="," ","t","r","u","e"," ","t","h","e","n">>)

\* local x = GlobalState.dead
CopiesKey ==
    GlobalRead(<<"l","o","c","a","l"," ","x"," ","="," ","G","l","o","b","a","l","S","t","a","t","e",".","d","e","a","d">>)

GlobalLines == GlobalItems \cup {ComparesKey, CopiesKey}

GlobalFiles ==
    { <<a>> : a \in GlobalLines } \cup { <<a, b>> : a \in GlobalLines, b \in GlobalLines }

InitGlobals ==
    /\ globalStates = <<>>
    /\ playerStates = <<>>
    /\ localPlayerStates = <<>>
    /\ allStates = <<>>
    /\ generated = FALSE
    /\ calls = 0
    /\ seen = {}
    /\ revisited = {}
    /\ keepLog = FALSE
    /\ log = <<>>
    /\ fnArg = <<>> /\ fnOut = "" /\ fnDone = FALSE
    /\ given \in GlobalFiles
    /\ scanLines = RenderLines(given)
    /\ scanPath \in ScanPaths
    /\ scanContext = ""
    /\ idx = 0 /\ exports = <<>> /\ merged = <<>> /\ pc = "idle"
    /\ generators = <<>> /\ luaFiles = <<>> /\ fileIdx = 0 /\ dpc = "idle"
    /\ scanned = NothingScanned
    /\ totals = <<>> /\ reported = <<>> /\ scans = <<>>

SpecGlobals == InitGlobals /\ [][ScanGlobalStates]_vars

\* the side the two paths of ScanPaths classify to
SideOfPath(path) == IF path[1] = "s" THEN "server" ELSE "client"

\* the type of the right-hand sides written in GlobalItems
TypeWritten(value) == IF value = <<"5">> THEN "number" ELSE "string"

\* name, type and side of the records of a list
Observed(list) ==
    [k \in 1..Len(list) |->
        [name |-> list[k].name, type |-> list[k].type, context |-> list[k].context]]

\* name, type and side the assignments of a file stand for
Assigned(items, path) ==
    [k \in 1..Len(items) |->
        [name |-> items[k].key, type |-> TypeWritten(items[k].value),
         context |-> SideOfPath(path)]]

\* C21: parseGlobalStates yields exactly one record per line that is not
\* commented out and assigns to a key of GlobalState, with the key as name,
\* the type of the right-hand side and the side of the file; commented-out
\* lines and lines that only read a key (a comparison) yield no record.
C21_OneRecordPerAssignment ==
    "parseGlobalStates" \in scanned.done =>
        Observed(scanned.globalStates)
            = Assigned(SelectSeq(given, IsGlobalItem), scanPath)

-----------------------------------------------------------------------------
(* parsePlayerStates on setter calls whose value is a literal or a call    *)
(* with two arguments (src/unnamed/part_003:426-479).                      *)

\* f(1, 2)
TextCallOfTwo == <<"f","(","1",","," ","2",")">>

SetterItems ==
    { StateSet(entity, key, value, flag, commented) :
        entity \in {"Player", "LocalPlayer"}, key \in StateKeys,
        value \in {TextFalse, TextCallOfTwo},
        flag \in {<<>>, TextTrue, TextFalse}, commented \in BOOLEAN }

SetterFiles ==
    { <<a>> : a \in SetterItems } \cup { <<a, b>> : a \in SetterItems, b \in SetterItems }

InitSetters ==
    /\ globalStates = <<>>
    /\ playerStates = <<>>
    /\ localPlayerStates = <<>>
    /\ allStates = <<>>
    /\ generated = FALSE
    /\ calls = 0
    /\ seen = {}
    /\ revisited = {}
    /\ keepLog = FALSE
    /\ log = <<>>
    /\ fnArg = <<>> /\ fnOut = "" /\ fnDone = FALSE
    /\ given \in SetterFiles
    /\ scanLines = RenderLines(given)
    /\ scanPath \in ScanPaths
    /\ scanContext = ""
    /\ idx = 0 /\ exports = <<>> /\ merged = <<>> /\ pc = "idle"
    /\ generators = <<>> /\ luaFiles = <<>> /\ fileIdx = 0 /\ dpc = "idle"
    /\ scanned = NothingScanned
    /\ totals = <<>> /\ reported = <<>> /\ scans = <<>>

SpecSetters == InitSetters /\ [][ScanPlayerStates]_vars

\* name and replicated flag of the records of a list
Flagged(list) ==
    [k \in 1..Len(list) |-> [name |-> list[k].name, replicated |-> list[k].replicated]]

\* name and replicated flag the setter calls of a file stand for: the flag
\* is true exactly when the third argument is the literal true
Replicating(items) ==
    [k \in 1..Len(items) |->
        [name |-> items[k].key, replicated |-> (items[k].flag = TextTrue)]]

\* C22: for a per-entity setter call on a line that is not commented out,
\* the replicated flag of the record is false when the call has no third
\* argument and true exactly when the third argument is the literal true;
\* the record is in the Player list for Player(...) and in the LocalPlayer
\* list for LocalPlayer, whatever side the path of the file classifies to.
C22_ReplicatedFlag ==
    "parsePlayerStates" \in scanned.done =>
        /\ Flagged(scanned.playerStatesResult.playerStates)
              = Replicating(SelectSeq(given, IsPlayerSet))
        /\ Flagged(scanned.playerStatesResult.localPlayerStates)
              = Replicating(SelectSeq(given, IsLocalPlayerSet))

-----------------------------------------------------------------------------
(* parse on files that carry comments above the function declaration and  *)
(* above the export call (src/unnamed/part_003:532-548).                   *)

\* the comment blocks of the model: none, free text, free text and a tag
AnchorBlocks == { <<>>, <<RichNote>>, <<RichNoteTwo, RichParamA>> }

\* a reference-based export: the declaration under its block, then the call
\* under its own block, with or without a line of code between the two
ReferenceFiles ==
    { aboveHeader \o <<Header(<<"F">>, << <<"a">> >>, FALSE, FALSE)>> \o body
         \o aboveCall \o <<ExportCall(<<"E">>, <<"F">>)>> :
        aboveHeader \in AnchorBlocks, body \in {<<>>, <<Code>>},
        aboveCall \in AnchorBlocks }

\* an inline export under its block
LiteralFiles ==
    { aboveCall \o <<InlineCall(<<"E">>, << <<"a">> >>, "same")>> \o body
         \o <<InlineClose>> :
        aboveCall \in AnchorBlocks, body \in {<<>>, <<Code>>} }

InitAnchor ==
    /\ given \in ReferenceFiles \cup LiteralFiles
    /\ scanLines = RenderAll(given)
    /\ scanPath \in ScanPaths
    /\ scanContext = ""
    /\ idx = 0
    /\ exports = <<>>
    /\ merged = <<>>
    /\ pc = "idle"
    /\ globalStates = <<>> /\ playerStates = <<>> /\ localPlayerStates = <<>>
    /\ allStates = <<>> /\ generated = FALSE /\ calls = 0
    /\ seen = {} /\ revisited = {} /\ keepLog = FALSE /\ log = <<>>
    /\ fnArg = <<>> /\ fnOut = "" /\ fnDone = FALSE
    /\ generators = <<>> /\ luaFiles = <<>> /\ fileIdx = 0 /\ dpc = "idle"
    /\ scanned = <<>> /\ totals = <<>> /\ reported = <<>> /\ scans = <<>>

SpecAnchor == InitAnchor /\ [][NextParse]_vars

\* the position of the item of a kind in a file that has one
PositionOf(items, kind) == CHOOSE k \in 1..Len(items) : items[k].kind = kind

\* the line the documentation of the export of a file is anchored at: the
\* declaration for a reference, the call for a function literal
AnchorOf(items) ==
    IF \E k \in 1..Len(items) : items[k].kind = "function"
    THEN PositionOf(items, "function")
    ELSE PositionOf(items, "inline")

\* the comment block directly above the anchor
AnchorBlock(items) == Block(SubSeq(items, 1, AnchorOf(items) - 1))

\* C23: the documentation of a reference-based export whose function was
\* located is that of the comment block directly above the located
\* declaration, and the documentation of an inline export that of the block
\* directly above the export call; comments directly above the call of a
\* resolved reference never reach the record.
C23_DocumentationAnchor ==
    pc = "returned" =>
        /\ Len(exports) = 1
        /\ exports[1].documentation.rawComments = Contents(AnchorBlock(given))
        /\ exports[1].description = AuthoredDescription(AnchorBlock(given))
        /\ exports[1].documentation.params = AuthoredParams(AnchorBlock(given))

\* a resolved reference with one text above the declaration and another
\* directly above the call
C23_Witness ==
    /\ pc = "returned"
    /\ given = <<RichNote, Header(<<"F">>, << <<"a">> >>, FALSE, FALSE),
                 RichNoteTwo, RichParamA, ExportCall(<<"E">>, <<"F">>)>>
    /\ exports[1].description = TextAdds

-----------------------------------------------------------------------------
(* The count summaries (src/README.md:400-430) against what the driver     *)
(* adds up for each add call (src/src/index.js:163, 173, 183).             *)

\* this.globalStates.size
getCount == Len(globalStates)

\* this.playerStates.size
getPlayerStateCount == Len(playerStates)

\* this.localPlayerStates.size
getLocalPlayerStateCount == Len(localPlayerStates)

\* the total without the LocalPlayer states
getTotalCountServerOnly == Len(globalStates) + Len(playerStates)

\* this.globalStates.size + this.playerStates.size + this.localPlayerStates.size
getTotalCount == Len(globalStates) + Len(playerStates) + Len(localPlayerStates)

\* total += states.length over the add calls made for a container
RECURSIVE TotalObserved(_, _)
TotalObserved(container, callLog) ==
    IF callLog = <<>> THEN 0
    ELSE (IF Head(callLog).container = container
          THEN Len(Head(callLog).states) ELSE 0)
         + TotalObserved(container, Tail(callLog))

\* the names the add calls have carried to a container
NamesObserved(container, callLog) ==
    { name \in StateNames : Suppliers(container, name, callLog) # <<>> }

\* C24: each unique count equals the number of distinct names observed in
\* its container and never exceeds the total observed for that container,
\* and getTotalCount is the sum of the three unique counts.
C24_UniqueCounts ==
    /\ getCount = Cardinality(NamesObserved("global", log))
    /\ getPlayerStateCount = Cardinality(NamesObserved("player", log))
    /\ getLocalPlayerStateCount = Cardinality(NamesObserved("local", log))
    /\ getCount <= TotalObserved("global", log)
    /\ getPlayerStateCount <= TotalObserved("player", log)
    /\ getLocalPlayerStateCount <= TotalObserved("local", log)
    /\ getTotalCount
          = Cardinality(NamesObserved("global", log))
              + Cardinality(NamesObserved("player", log))
              + Cardinality(NamesObserved("local", log))

\* a name observed twice in one container and a name in another: fewer
\* unique names than observations
C24_Witness ==
    /\ Len(log) = 3
    /\ getCount = 1
    /\ TotalObserved("global", log) = 2
    /\ getLocalPlayerStateCount = 2
    /\ getTotalCount = 3

-----------------------------------------------------------------------------
(* One run of parse with the loops of parseExport taken one iteration at a  *)
(* time: the search of findFunctionDefinition, the look-ahead of            *)
(* parseInlineFunction and the two backward loops of extractDocumentation.  *)
(* scans holds the loop variable i (j in the first loop of                  *)
(* extractDocumentation), combinedText, the startIndex handed to            *)
(* extractDocumentation, and how many lines the last search and the last    *)
(* look-ahead examined; calls counts the steps the run has taken.           *)

\* an export of a literal whose header is never closed
InlineNoHeader == InlineCall(<<"G">>, << <<"a">>, <<"b">> >>, "split")

\* a literal with no header in the lines the look-ahead joins, then a
\* declaration further above its export than the search reaches
WindowFile ==
    <<InlineNoHeader>> \o [k \in 1..InlineWindow + 1 |-> Code]
        \o <<HeaderFa>> \o [k \in 1..SearchWindow + 1 |-> Code] \o <<ExportEF>>

LoopFiles == ShortFiles \cup InlineFiles \cup LongFiles \cup { WindowFile }

\* the variables of the aggregator other than calls
aggRest == <<globalStates, playerStates, localPlayerStates, allStates,
             generated, seen, revisited, keepLog, log>>

NoLoop == [i |-> 0, start |-> 0, combinedText |-> <<>>, searched |-> 0, joined |-> 0]

InitLoops ==
    /\ given \in LoopFiles
    /\ scanLines = RenderAll(given)
    /\ scanPath = <<"s","e","r","v","e","r","/","m","a","i","n",".","l","u","a">>
    /\ scanContext = ""
    /\ idx = 0
    /\ exports = <<>>
    /\ merged = <<>>
    /\ pc = "idle"
    /\ generators = <<>> /\ luaFiles = <<>> /\ fileIdx = 0 /\ dpc = "idle"
    /\ scanned = <<>> /\ totals = <<>> /\ reported = <<>> /\ scans = NoLoop
    /\ fnArg = <<>> /\ fnOut = "" /\ fnDone = FALSE
    /\ globalStates = <<>> /\ playerStates = <<>> /\ localPlayerStates = <<>>
    /\ allStates = <<>> /\ generated = FALSE /\ calls = 0
    /\ seen = {} /\ revisited = {} /\ keepLog = FALSE /\ log = <<>>

\* which loop parseExport enters first on the line: none when it returns null
FirstLoop(exportLine, isInline) ==
    IF ~(MatchExportRef(exportLine).ok \/ (isInline /\ MatchExportInline(exportLine).ok))
    THEN "none"
    ELSE IF ~isInline THEN "search" ELSE "join"

\* the function name the search looks for
FunctionRef(exportLine) == MatchExportRef(exportLine).ref

\* the call of extractDocumentation: i and j start at startIndex - 1
Walk(startIndex) == [scans EXCEPT !.start = startIndex, !.i = startIndex - 1]

\* parse up to its loop
LoopsBegin ==
    /\ pc = "idle"
    /\ exports' = <<>>
    /\ scanContext' = detectContext(scanPath)
    /\ idx' = 0
    /\ pc' = "line"
    /\ calls' = calls + 1
    /\ UNCHANGED <<given, scanLines, scanPath, merged, aggRest, fnVars, drvVars>>

\* one iteration of the loop of parse, as far as the first loop of parseExport
LoopsLine ==
    /\ pc = "line"
    /\ idx < Len(scanLines)
    /\ LET loop == IF Includes(Trim(At(scanLines, idx)), TextExportsCall)
                   THEN FirstLoop(At(scanLines, idx), IsInline(At(scanLines, idx)))
                   ELSE "none"
       IN  /\ pc' = IF loop = "none" THEN "line" ELSE loop
           /\ idx' = IF loop = "none" THEN idx + 1 ELSE idx
           /\ scans' = CASE loop = "search" ->
                               [scans EXCEPT !.i = idx - 1, !.searched = 0]
                         [] loop = "join"   ->
                               [scans EXCEPT !.i = 0, !.joined = 0,
                                             !.combinedText = <<>>]
                         [] OTHER           -> scans
    /\ calls' = calls + 1
    /\ UNCHANGED <<given, scanLines, scanPath, scanContext, exports, merged,
                   aggRest, fnVars, generators, luaFiles, fileIdx, dpc, scanned,
                   totals, reported>>

\* the loop of findFunctionDefinition: its test, then one iteration or the
\* return of null
SearchStep ==
    /\ pc = "search"
    /\ IF scans.i >= SearchFloor(idx)
       THEN IF Defines(scanLines, scans.i, FunctionRef(At(scanLines, idx)))
            THEN /\ pc' = "check"
                 /\ scans' = [scans EXCEPT !.start = scans.i, !.i = scans.i - 1,
                                           !.searched = scans.searched + 1]
            ELSE /\ pc' = "search"
                 /\ scans' = [scans EXCEPT !.i = scans.i - 1,
                                           !.searched = scans.searched + 1]
       ELSE /\ pc' = "check"
            /\ scans' = Walk(idx)
    /\ calls' = calls + 1
    /\ UNCHANGED <<given, scanLines, scanPath, scanContext, idx, exports, merged,
                   aggRest, fnVars, generators, luaFiles, fileIdx, dpc, scanned,
                   totals, reported>>

\* combinedText after the line of iteration i was joined
Joined == scans.combinedText \o <<" ">> \o Trim(At(scanLines, idx + scans.i))

\* the loop of parseInlineFunction: its test, then one iteration or the
\* return of the empty signature
JoinStep ==
    /\ pc = "join"
    /\ IF scans.i < InlineWindow /\ idx + scans.i < Len(scanLines)
       THEN IF MatchInlineFunction(Joined).ok
            THEN /\ pc' = "check"
                 /\ scans' = [scans EXCEPT !.start = idx, !.i = idx - 1,
                                           !.combinedText = Joined,
                                           !.joined = scans.joined + 1]
            ELSE /\ pc' = "join"
                 /\ scans' = [scans EXCEPT !.i = scans.i + 1,
                                           !.combinedText = Joined,
                                           !.joined = scans.joined + 1]
       ELSE /\ pc' = "check"
            /\ scans' = Walk(idx)
    /\ calls' = calls + 1
    /\ UNCHANGED <<given, scanLines, scanPath, scanContext, idx, exports, merged,
                   aggRest, fnVars, generators, luaFiles, fileIdx, dpc, scanned,
                   totals, reported>>

\* the first loop of extractDocumentation goes on from line j
ChecksOn(checkLine) ==
    /\ ~StartsWith(checkLine, ThreeDashes)
    /\ checkLine = <<>> \/ StartsWith(checkLine, TwoDashes)

\* the first loop of extractDocumentation: its test, then one iteration; the
\* collecting loop starts again from startIndex - 1
CheckStep ==
    /\ pc = "check"
    /\ IF scans.i >= 0 /\ ChecksOn(Trim(At(scanLines, scans.i)))
       THEN /\ pc' = "check"
            /\ scans' = [scans EXCEPT !.i = scans.i - 1]
       ELSE /\ pc' = "collect"
            /\ scans' = Walk(scans.start)
    /\ calls' = calls + 1
    /\ UNCHANGED <<given, scanLines, scanPath, scanContext, idx, exports, merged,
                   aggRest, fnVars, generators, luaFiles, fileIdx, dpc, scanned,
                   totals, reported>>

\* the collecting loop goes on from line i
CollectsOn(line) ==
    /\ line # <<>>
    /\ StartsWith(line, ThreeDashes) \/ StartsWith(line, TwoDashes)

\* the collecting loop of extractDocumentation: its test, then one
\* iteration; after it parseExport returns and parse pushes the record
CollectStep ==
    /\ pc = "collect"
    /\ IF scans.i >= 0 /\ CollectsOn(Trim(At(scanLines, scans.i)))
       THEN /\ pc' = "collect"
            /\ scans' = [scans EXCEPT !.i = scans.i - 1]
            /\ UNCHANGED <<idx, exports>>
       ELSE /\ pc' = "line"
            /\ exports' = Pushed(exports, parseExport(scanLines, idx, scanContext))
            /\ idx' = idx + 1
            /\ scans' = scans
    /\ calls' = calls + 1
    /\ UNCHANGED <<given, scanLines, scanPath, scanContext, merged,
                   aggRest, fnVars, generators, luaFiles, fileIdx, dpc, scanned,
                   totals, reported>>

\* the loop of parse is over
LoopsReturn ==
    /\ pc = "line"
    /\ idx = Len(scanLines)
    /\ pc' = "returned"
    /\ calls' = calls + 1
    /\ UNCHANGED <<given, scanLines, scanPath, scanContext, idx, exports, merged,
                   aggRest, fnVars, drvVars>>

NextLoops ==
    LoopsBegin \/ LoopsLine \/ SearchStep \/ JoinStep \/ CheckStep \/ CollectStep
        \/ LoopsReturn

SpecLoops == InitLoops /\ [][NextLoops]_vars

\* the next step of a run that has not returned
LoopsStep == pc # "returned" /\ calls' = calls + 1

\* parse runs on one thread to its return: as long as it has not returned it
\* takes its next step
SpecLoopsFair == SpecLoops /\ WF_calls(LoopsStep)

\* a run that has not returned is at a step of NextLoops
LoopsNotStuck ==
    /\ pc \in { "idle", "line", "search", "join", "check", "collect", "returned" }
    /\ pc = "line" => idx <= Len(scanLines)

\* a backward loop of extractDocumentation is left at the top of the file or
\* at a line that ends it
WalkEnded ==
    \/ scans.i < 0
    \/ pc = "check" /\ ~ChecksOn(Trim(At(scanLines, scans.i)))
    \/ pc = "collect" /\ ~CollectsOn(Trim(At(scanLines, scans.i)))

\* one step of a backward loop of extractDocumentation lowers its index, and
\* the loop is left only where it ends
WalkDescends ==
    /\ pc \in { "check", "collect" } /\ pc' = pc => scans'.i < scans.i
    /\ pc \in { "check", "collect" } /\ pc' # pc => WalkEnded

\* C25: every scan of a file returns; the search of findFunctionDefinition
\* examines at most 500 lines, all of them among the 500 above the export
\* line; the look-ahead of parseInlineFunction examines at most 5 lines; and
\* each step of the backward comment walk lowers its line index, the walk
\* ending at the top of the file or at a line that ends it.
C25_ScansTerminate ==
    /\ <>(pc = "returned")
    /\ [](/\ LoopsNotStuck
          /\ scans.searched <= SearchWindow
          /\ scans.joined <= InlineWindow
          /\ pc = "search" => scans.i >= idx - SearchWindow - 1)
    /\ [][WalkDescends]_vars

\* parse returned after a look-ahead that joined 5 lines of the 7 below the
\* export line and a search that examined 500 lines of the 502 above it
C25_Witness ==
    /\ pc = "returned"
    /\ given = WindowFile
    /\ scans.joined = InlineWindow
    /\ scans.searched = SearchWindow
    /\ Len(exports) = 2

-----------------------------------------------------------------------------
(* findLuaFiles and detectResourceName of the driver, with the functions   *)
(* of node's path module they call (POSIX form) on character sequences.    *)

\* a segment that path.normalize keeps
IsSegment(part) == part # <<>> /\ part # <<".">>

\* the segments of a path after "." and ".." are resolved
RECURSIVE Resolve(_, _)
Resolve(parts, acc) ==
    IF parts = <<>> THEN acc
    ELSE IF Head(parts) = <<".", ".">>
         THEN Resolve(Tail(parts), IF acc = <<>> THEN acc ELSE Front(acc))
         ELSE Resolve(Tail(parts), Append(acc, Head(parts)))

Segments(p) == Resolve(SelectSeq(Split(p, "/"), IsSegment), <<>>)

IsAbsolute(p) == StartsWith(p, <<"/">>)

\* path.normalize(p), trailing separators dropped
PathNormalize(p) ==
    IF IsAbsolute(p) THEN <<"/">> \o Join(Segments(p), "/")
    ELSE IF Segments(p) = <<>> THEN <<".">>
    ELSE Join(Segments(p), "/")

\* path.join(a, b)
PathJoin(a, b) == PathNormalize(a \o <<"/">> \o b)

\* process.cwd()
Cwd == <<"/", "w">>

\* path.resolve(p)
PathResolve(p) == IF IsAbsolute(p) THEN PathNormalize(p) ELSE PathJoin(Cwd, p)

\* the position of the last separator of p, 0 when it has none
LastSeparator(p) ==
    IF \E k \in 1..Len(p) : p[k] = "/"
    THEN Greatest({ k \in 1..Len(p) : p[k] = "/" })
    ELSE 0

\* path.dirname(p) for a normalized path
PathDirname(p) ==
    IF LastSeparator(p) = 0 THEN <<".">>
    ELSE IF LastSeparator(p) = 1 THEN <<"/">>
    ELSE SubSeq(p, 1, LastSeparator(p) - 1)

\* path.basename(p) for a normalized path
PathBasename(p) == Substring(p, LastSeparator(p))

\* how many leading segments two paths share
RECURSIVE CommonLen(_, _)
CommonLen(f, t) ==
    IF f # <<>> /\ t # <<>> /\ Head(f) = Head(t)
    THEN 1 + CommonLen(Tail(f), Tail(t))
    ELSE 0

\* path.relative on the segments of the two resolved paths
RelativeOf(f, t) ==
    Join([k \in 1..(Len(f) - CommonLen(f, t)) |-> <<".", ".">>]
             \o SubSeq(t, CommonLen(f, t) + 1, Len(t)), "/")

\* path.relative(from, to)
PathRelative(from, to) ==
    RelativeOf(Segments(PathResolve(from)), Segments(PathResolve(to)))

TextManifest == <<"f","x","m","a","n","i","f","e","s","t",".","l","u","a">>
TextUnknownResource ==
    <<"u","n","k","n","o","w","n","_","r","e","s","o","u","r","c","e">>

\* fs.existsSync(p), disk being the absolute paths of the files that exist
ExistsSync(p, disk) == PathResolve(p) \in disk

\* the loop of detectResourceName from currentDir: the name it returns, or
\* <<>> when it ends without one
RECURSIVE ManifestFrom(_, _, _)
ManifestFrom(currentDir, inputDirResolved, disk) ==
    IF ~StartsWith(currentDir, inputDirResolved) THEN <<>>
    ELSE IF ExistsSync(PathJoin(currentDir, TextManifest), disk)
         THEN PathBasename(currentDir)
         ELSE IF PathDirname(currentDir) = currentDir THEN <<>>
              ELSE ManifestFrom(PathDirname(currentDir), inputDirResolved, disk)

\* part && !part.startsWith('[')
IsResourcePart(part) == part # <<>> /\ ~StartsWith(part, <<"[">>)

\* the fallback: the first part that is not a bracket folder
FirstResourcePart(parts) ==
    IF SelectSeq(parts, IsResourcePart) = <<>> THEN TextUnknownResource
    ELSE Head(SelectSeq(parts, IsResourcePart))

\* the end of detectResourceName, found being what its loop returned
ResourceNamed(found, relativePath) ==
    IF found # <<>> THEN found ELSE FirstResourcePart(Split(relativePath, "/"))

detectResourceName(filePath, inputDir, disk) ==
    ResourceNamed(ManifestFrom(PathDirname(filePath), PathResolve(inputDir), disk),
                  PathRelative(PathResolve(inputDir), filePath))

\* files.map(file => path.join(inputDir, file)), files being what glob found
findLuaFiles(inputDir, files) == [k \in 1..Len(files) |-> PathJoin(inputDir, files[k])]

-----------------------------------------------------------------------------
(* One run of the driver as far as the unit of each file: a tree under the  *)
(* input directory /w/server, given by the folders of each Lua file and by  *)
(* the folders that hold a manifest, each as the sequence of folder names   *)
(* below the input directory.                                               *)

TextServerDir == <<"s","e","r","v","e","r">>
Bracketed     == <<"[","q","]">>

\* the configured input directory: as documented, and absolute
InputDirs == { <<".", "/">> \o TextServerDir, Cwd \o <<"/">> \o TextServerDir }

\* the folders of the tree
Folders ==
    { <<>>, << <<"a">> >>, << <<"a">>, <<"b">> >>, <<Bracketed>>,
      <<Bracketed, <<"a">> >>, <<Bracketed, <<"a">>, <<"b">> >> }

LuaNames == { <<"m",".","l","u","a">>, <<"[","m","]",".","l","u","a">> }

\* the trees: a file in one folder, or one in each of two
Trees ==
    { <<[folder |-> f, name |-> n]>> : f \in Folders, n \in LuaNames }
        \cup { <<[folder |-> << <<"a">>, <<"b">> >>, name |-> <<"m",".","l","u","a">>],
                 [folder |-> f, name |-> <<"m",".","l","u","a">>]>> :
                   f \in { <<Bracketed>>, <<Bracketed, <<"a">> >> } }

\* what glob returns for a file: its path below the input directory
GlobPath(file) == Join(file.folder \o <<file.name>>, "/")

\* the manifest of a folder, as an absolute path
ManifestOf(folder) ==
    Cwd \o <<"/">> \o Join(<<TextServerDir>> \o folder \o <<TextManifest>>, "/")

InitUnits ==
    /\ given \in { [inputDir |-> d, files |-> t, manifests |-> m] :
                     d \in InputDirs, t \in Trees, m \in SUBSET Folders }
    /\ luaFiles = <<>>
    /\ fileIdx = 0
    /\ reported = <<>>
    /\ dpc = "find"
    /\ generators = <<>> /\ scanned = <<>> /\ totals = <<>> /\ scans = <<>>
    /\ scanLines = <<>> /\ scanPath = <<>> /\ scanContext = ""
    /\ idx = 0 /\ exports = <<>> /\ merged = <<>> /\ pc = "idle"
    /\ fnArg = <<>> /\ fnOut = "" /\ fnDone = FALSE
    /\ globalStates = <<>> /\ playerStates = <<>> /\ localPlayerStates = <<>>
    /\ allStates = <<>> /\ generated = FALSE /\ calls = 0
    /\ seen = {} /\ revisited = {} /\ keepLog = FALSE /\ log = <<>>

\* const luaFiles = await findLuaFiles(config)
UnitsFind ==
    /\ dpc = "find"
    /\ luaFiles' = findLuaFiles(given.inputDir,
                                [k \in 1..Len(given.files) |-> GlobPath(given.files[k])])
    /\ dpc' = "detect"
    /\ UNCHANGED <<given, fileIdx, reported, generators, scanned, totals, scans,
                   scanLines, scanPath, scanContext, idx, exports, merged, pc,
                   aggVars, fnVars>>

\* detectResourceName(file, config.inputDir) for the next file of the loop
UnitsDetect ==
    /\ dpc = "detect"
    /\ fileIdx < Len(luaFiles)
    /\ reported' = Append(reported,
                          detectResourceName(luaFiles[fileIdx + 1], given.inputDir,
                                             { ManifestOf(f) : f \in given.manifests }))
    /\ fileIdx' = fileIdx + 1
    /\ UNCHANGED <<given, luaFiles, dpc, generators, scanned, totals, scans,
                   scanLines, scanPath, scanContext, idx, exports, merged, pc,
                   aggVars, fnVars>>

NextUnits == UnitsFind \/ UnitsDetect

SpecUnits == InitUnits /\ [][NextUnits]_vars

\* the folders of a file, from the input directory down, that hold a manifest
\* (0 stands for the input directory itself)
Holding(file) ==
    { k \in 0..Len(file.folder) : SubSeq(file.folder, 1, k) \in given.manifests }

\* the name the unit of a file is to have
UnitOf(file) ==
    IF Holding(file) # {}
    THEN IF Greatest(Holding(file)) = 0 THEN TextServerDir
         ELSE file.folder[Greatest(Holding(file))]
    ELSE IF \E k \in 1..Len(file.folder) : file.folder[k][1] # "["
         THEN file.folder[Least({ k \in 1..Len(file.folder) : file.folder[k][1] # "[" })]
         ELSE IF file.name[1] # "[" THEN file.name ELSE TextUnknownResource

\* C26: for a file under the input directory, whether that directory is
\* configured as ./server or as an absolute path, detectResourceName returns
\* the name of the nearest folder at or below the input directory that holds
\* a manifest; without one it returns the first path component below the
\* input directory that is not a bracket folder, and unknown_resource when
\* there is none.
C26_NearestManifest ==
    \A k \in 1..Len(reported) : reported[k] = UnitOf(given.files[k])

\* the same with the input directory configured as an absolute path
AbsoluteNearestManifest == IsAbsolute(given.inputDir) => C26_NearestManifest

-----------------------------------------------------------------------------
(* The collision branch of the three add methods leaves the stored entry    *)
(* as its first observation made it, but for resources and type.            *)

\* entry k of a container holds in the next state what it holds now, but
\* for its resources and its type
KeptByStep(container, k) ==
    /\ MapOf(container)'[k].name = MapOf(container)[k].name
    /\ MapOf(container)'[k].context = MapOf(container)[k].context
    /\ MapOf(container)'[k].value = MapOf(container)[k].value
    /\ container # "global" =>
           MapOf(container)'[k].replicated = MapOf(container)[k].replicated

\* C27: an add call leaves the name, context, value and replicated flag of
\* every entry already stored as they are, whatever the observations of that
\* name it carries; only resources and type can change.
C27_CollisionKeepsFirst ==
    [][\A container \in Containers :
           \A k \in 1..Len(MapOf(container)) : KeptByStep(container, k)]_vars

\* an entry that met an observation of another type, from another unit and
\* another side, and still holds the value, side and flag it was stored with
C27_Witness ==
    /\ Find(playerStates, "a") # 0
    /\ playerStates[Find(playerStates, "a")].type = "any"
    /\ playerStates[Find(playerStates, "a")].value = <<"5">>
    /\ playerStates[Find(playerStates, "a")].context = "client"
    /\ playerStates[Find(playerStates, "a")].replicated
    /\ Len(playerStates[Find(playerStates, "a")].resources) = 2
    /\ <<"player", "a", "boolean">> \in seen

-----------------------------------------------------------------------------
(* generateStateFile called any number of times between the add calls: the  *)
(* merged view of the Player and LocalPlayer states, and what building it   *)
(* leaves in the two maps (src/README.md:313-374).                          *)

\* the view stores the stored object itself: its writes reach the map
StoredShared(state, entry) ==
    [name |-> entry.name, type |-> entry.type, context |-> entry.context,
     resources |-> entry.resources, value |-> entry.value,
     replicated |-> entry.replicated]

\* a stored entry after the writes made to the entry of the view built from
\* it: {...state} is a new object, so no write to it reaches the map
StoredAfterView(state, entry) == state

\* allStates before it is sorted
ViewOf(pstates, lstates) == AddClientViews(AddServerViews(<<>>, pstates), lstates)

\* this.playerStates after the view was built
PlayersAfterView(pstates, view) ==
    [k \in 1..Len(pstates) |->
        StoredAfterView(pstates[k], view[Find(view, pstates[k].name)])]

\* this.localPlayerStates after the view was built: an entry is built from a
\* LocalPlayer state only when no Player state has its name
LocalPlayersAfterView(pstates, lstates, view) ==
    [k \in 1..Len(lstates) |->
        IF Find(pstates, lstates[k].name) # 0 THEN lstates[k]
        ELSE StoredAfterView(lstates[k], view[Find(view, lstates[k].name)])]

InitView ==
    /\ globalStates = <<>>
    /\ playerStates = <<>>
    /\ localPlayerStates = <<>>
    /\ allStates = <<>>
    /\ generated = FALSE
    /\ calls = 0
    /\ seen = {}
    /\ revisited = {}
    /\ keepLog = FALSE
    /\ log = <<>>
    /\ fnArg = <<>> /\ fnOut = "" /\ fnDone = FALSE
    /\ given = <<>> /\ scanLines = <<>> /\ scanPath = <<>> /\ scanContext = ""
    /\ idx = 0 /\ exports = <<>> /\ merged = <<>> /\ pc = "idle"
    /\ generators = <<>> /\ luaFiles = <<>> /\ fileIdx = 0 /\ dpc = "idle"
    /\ scanned = <<>> /\ totals = <<>> /\ reported = <<>> /\ scans = <<>>

\* a call of generateStateFile, the first or a later one
ViewGenerate ==
    /\ allStates' = BuildAllStates(playerStates, localPlayerStates)
    /\ playerStates' =
           PlayersAfterView(playerStates, ViewOf(playerStates, localPlayerStates))
    /\ localPlayerStates' =
           LocalPlayersAfterView(playerStates, localPlayerStates,
                                 ViewOf(playerStates, localPlayerStates))
    /\ generated' = TRUE
    /\ UNCHANGED <<globalStates, calls, seen, revisited, keepLog, log, fnVars,
                   scanVars, drvVars>>

NextView == AddPlayer \/ AddLocalPlayer \/ ViewGenerate

SpecView == InitView /\ [][NextView]_vars

\* the names stored in a map
StoredNames(map) == { map[k].name : k \in 1..Len(map) }

\* the view has one entry for each name of the two maps
ViewIsUnion ==
    /\ { allStates[k].name : k \in 1..Len(allStates) }
           = StoredNames(playerStates) \cup StoredNames(localPlayerStates)
    /\ Len(allStates)
           = Cardinality(StoredNames(playerStates) \cup StoredNames(localPlayerStates))

\* the type of an entry of the view whose name both maps hold
ViewTypes ==
    \A k \in 1..Len(allStates) :
        LET p == Find(playerStates, allStates[k].name)
            l == Find(localPlayerStates, allStates[k].name)
        IN  p # 0 /\ l # 0 =>
                allStates[k].type =
                    IF playerStates[p].type = localPlayerStates[l].type
                    THEN playerStates[p].type ELSE "any"

\* a call of generateStateFile leaves the three maps as they are, and on an
\* aggregator it was already called on it builds the same view
ViewLeavesStored ==
    generated' /\ calls' = calls =>
        /\ playerStates' = playerStates
        /\ localPlayerStates' = localPlayerStates
        /\ globalStates' = globalStates
        /\ generated => allStates' = allStates

\* C28: the merged view built by generateStateFile has exactly one entry for
\* each name of the union of the Player and LocalPlayer states; an entry whose
\* name is on both sides has their common type, or 'any' when the two types
\* differ; and building the view changes no stored entry, so that a second
\* call builds the same view.
C28_MergedView ==
    /\ [](generated => ViewIsUnion /\ ViewTypes)
    /\ [][ViewLeavesStored]_vars

\* a view of two names, one on both sides with two types, the other on the
\* client side only; the stored types are still the two that differ
C28_Witness ==
    /\ generated
    /\ Len(allStates) = 2
    /\ allStates[1].name = "a" /\ allStates[1].type = "any"
    /\ allStates[2].name = "b"
    /\ Find(playerStates, "a") # 0 /\ Find(playerStates, "b") = 0
    /\ playerStates[Find(playerStates, "a")].type = "number"
    /\ Find(localPlayerStates, "a") # 0 /\ Find(localPlayerStates, "b") # 0
    /\ localPlayerStates[Find(localPlayerStates, "a")].type = "boolean"

-----------------------------------------------------------------------------
(* Calls of parse, parseGlobalStates and parsePlayerStates, one after the   *)
(* other, on one parser.  Arrays are objects: scans.heap holds every array  *)
(* made, scans.fields the array each field of the parser refers to (the     *)
(* four of the constructor at first, src/unnamed/part_003:303-308), and     *)
(* scans.returns what each call returned: references, as the caller holds   *)
(* them.                                                                    *)

\* the scan pushes onto the array the field already refers to
FilledSame(heap, ref, found) ==
    [heap |-> [heap EXCEPT ![ref] = @ \o found], ref |-> ref]

\* this.exports = [] and the pushes of the scan: the field refers to a new
\* array, which holds what the scan found
FilledNew(heap, ref, found) ==
    [heap |-> Append(heap, found), ref |-> Len(heap) + 1]

CallFiles ==
    << <<ExportCall(<<"E">>, <<"F">>),
         StateAssign("GlobalState", TextBusy, <<"5">>, FALSE),
         StateSet("Player", TextBusy, TextFalse, <<>>, FALSE)>>,
       <<StateSet("LocalPlayer", TextDead, TextFalse, TextTrue, FALSE),
         ExportCall(<<"G">>, <<"H">>),
         StateAssign("GlobalState", TextDead, TextSunny, FALSE),
         StateSet("Player", TextDead, TextFalse, TextTrue, FALSE)>>,
       <<Malformed(<<"e","x","p","o","r","t","s","(","'","E","'"," ","F",")">>)>> >>

CallPath == <<"s","e","r","v","e","r","/","m","a","i","n",".","l","u","a">>

InitCalls ==
    /\ given = CallFiles
    /\ scans = [heap |-> << <<>>, <<>>, <<>>, <<>> >>,
                fields |-> [exports |-> 1, globalStates |-> 2, playerStates |-> 3,
                            localPlayerStates |-> 4],
                returns |-> <<>>]
    /\ calls = 0
    /\ globalStates = <<>> /\ playerStates = <<>> /\ localPlayerStates = <<>>
    /\ allStates = <<>> /\ generated = FALSE
    /\ seen = {} /\ revisited = {} /\ keepLog = FALSE /\ log = <<>>
    /\ fnArg = <<>> /\ fnOut = "" /\ fnDone = FALSE
    /\ scanLines = <<>> /\ scanPath = <<>> /\ scanContext = ""
    /\ idx = 0 /\ exports = <<>> /\ merged = <<>> /\ pc = "idle"
    /\ generators = <<>> /\ luaFiles = <<>> /\ fileIdx = 0 /\ dpc = "idle"
    /\ scanned = <<>> /\ totals = <<>> /\ reported = <<>>

\* the state after a call that filled one field
CallDone(method, f, field, filled) ==
    /\ scans' = [heap |-> filled.heap,
                 fields |-> [scans.fields EXCEPT ![field] = filled.ref],
                 returns |-> Append(scans.returns,
                                    [method |-> method, file |-> f,
                                     refs |-> <<filled.ref>>])]
    /\ calls' = calls + 1
    /\ UNCHANGED <<globalStates, playerStates, localPlayerStates, allStates,
                   generated, seen, revisited, keepLog, log, fnVars, scanVars,
                   generators, luaFiles, fileIdx, dpc, scanned, totals, reported>>

\* parser.parse(content, filePath): return this.exports
CallParse ==
    /\ calls < MaxCalls
    /\ \E f \in 1..Len(given) :
           CallDone("parse", f, "exports",
                    FilledNew(scans.heap, scans.fields.exports,
                              parse(RenderLines(given[f]), CallPath)))

\* parser.parseGlobalStates(content, filePath): return this.globalStates
CallParseGlobalStates ==
    /\ calls < MaxCalls
    /\ \E f \in 1..Len(given) :
           CallDone("parseGlobalStates", f, "globalStates",
                    FilledNew(scans.heap, scans.fields.globalStates,
                              parseGlobalStates(RenderLines(given[f]), CallPath)))

\* the state after a call of parsePlayerStates, which filled two fields
PlayerCallDone(f, players, locals) ==
    /\ scans' = [heap |-> locals.heap,
                 fields |-> [scans.fields EXCEPT !.playerStates = players.ref,
                                                 !.localPlayerStates = locals.ref],
                 returns |-> Append(scans.returns,
                                    [method |-> "parsePlayerStates", file |-> f,
                                     refs |-> <<players.ref, locals.ref>>])]
    /\ calls' = calls + 1
    /\ UNCHANGED <<globalStates, playerStates, localPlayerStates, allStates,
                   generated, seen, revisited, keepLog, log, fnVars, scanVars,
                   generators, luaFiles, fileIdx, dpc, scanned, totals, reported>>

\* the second field of parsePlayerStates, filled after the first
LocalsFilled(players, found) ==
    FilledNew(players.heap, scans.fields.localPlayerStates, found)

\* parser.parsePlayerStates(content, filePath): return both lists
CallParsePlayerStates ==
    /\ calls < MaxCalls
    /\ \E f \in 1..Len(given) :
         \E found \in { parsePlayerStates(RenderLines(given[f]), CallPath) } :
           \E players \in { FilledNew(scans.heap, scans.fields.playerStates,
                                      found.playerStates) } :
               PlayerCallDone(f, players,
                              LocalsFilled(players, found.localPlayerStates))

NextCalls == CallParse \/ CallParseGlobalStates \/ CallParsePlayerStates

SpecCalls == InitCalls /\ [][NextCalls]_vars

\* the keys of the lines of a file that a call of the method records, one
\* sequence for each list the call returns
KeysFound(method, items) ==
    CASE method = "parse" -> <<KeysOf(SelectSeq(items, IsExportItem))>>
      [] method = "parseGlobalStates" -> <<KeysOf(SelectSeq(items, IsGlobalItem))>>
      [] method = "parsePlayerStates" ->
             <<KeysOf(SelectSeq(items, IsPlayerSet)),
               KeysOf(SelectSeq(items, IsLocalPlayerSet))>>

\* every list returned so far holds the records of its file and no other
ReturnsOwnRecords ==
    \A k \in 1..Len(scans.returns) :
        \A j \in 1..Len(scans.returns[k].refs) :
            NamesOf(scans.heap[scans.returns[k].refs[j]])
                = KeysFound(scans.returns[k].method,
                            given[scans.returns[k].file])[j]

\* a step leaves every list returned so far as it is
ReturnsKept ==
    \A k \in 1..Len(scans.returns) :
        \A j \in 1..Len(scans.returns[k].refs) :
            scans'.heap[scans.returns[k].refs[j]]
                = scans.heap[scans.returns[k].refs[j]]

\* C29: whatever calls were made before on the same parser, the list a call
\* of parse, parseGlobalStates or parsePlayerStates returns holds the records
\* of its file only, and no later call changes a list returned earlier.
C29_ListsPerCall ==
    /\ []ReturnsOwnRecords
    /\ [][ReturnsKept]_vars

\* three calls of parse on one parser, on two files with an export each and
\* then on one with none: three lists, of one, one and no record
C29_Witness ==
    /\ Len(scans.returns) = 3
    /\ \A k \in 1..3 : scans.returns[k].method = "parse" /\ scans.returns[k].file = k
    /\ NamesOf(scans.heap[scans.returns[1].refs[1]]) = << <<"E">> >>
    /\ NamesOf(scans.heap[scans.returns[2].refs[1]]) = << <<"G">> >>
    /\ scans.heap[scans.returns[3].refs[1]] = <<>>

-----------------------------------------------------------------------------
(* The driver after its loop (src/src/index.js:194-240): the early return,  *)
(* a directory and its files for each generator of resourceGenerators, and  *)
(* the _internal directory of the state file.  log holds what the run has   *)
(* written: one entry for each directory, with the names of its files.      *)

\* TypeGenerator.generate: the names of the files it returns
GeneratedFiles(generator) ==
    {"shared.lua"}
        \cup (IF Len(generator.clientExports) > 0 THEN {"client.lua"} ELSE {})
        \cup (IF Len(generator.serverExports) > 0 THEN {"server.lua"} ELSE {})

\* generate of the state aggregator: the names of the files it returns
StateBagFiles ==
    IF Len(globalStates) = 0 /\ Len(playerStates) = 0 /\ Len(localPlayerStates) = 0
    THEN {}
    ELSE {"shared.lua"}

\* totalExports === 0 && stateBagGenerator.getTotalCount() === 0
NothingFound == totals.exports = 0 /\ getTotalCount = 0

\* the _internal directory made whatever the aggregator holds
HasStatesAlways == TRUE

\* stateBagGenerator.getTotalCount() > 0
HasStates == getTotalCount > 0

\* what a file of the run holds: an export, a state, both, or a state write
\* that is commented out
OutputContents ==
    { <<ExportCall(<<"E">>, <<"F">>)>>,
      <<StateAssign("GlobalState", TextBusy, <<"5">>, FALSE)>>,
      <<ExportCall(<<"E">>, <<"F">>),
        StateSet("Player", TextDead, TextFalse, TextTrue, FALSE)>>,
      <<StateAssign("GlobalState", TextBusy, <<"5">>, TRUE)>> }

OutputFiles ==
    { [path |-> p.path, resourceName |-> p.resourceName, items |-> items,
       lines |-> RenderLines(items), fails |-> f] :
        p \in InputPaths, items \in OutputContents, f \in {"parse", "none"} }

InitOutput ==
    /\ globalStates = <<>>
    /\ playerStates = <<>>
    /\ localPlayerStates = <<>>
    /\ allStates = <<>>
    /\ generated = FALSE
    /\ calls = 0
    /\ seen = {}
    /\ revisited = {}
    /\ keepLog = FALSE
    /\ log = <<>>
    /\ fnArg = <<>> /\ fnOut = "" /\ fnDone = FALSE
    /\ given = <<>> /\ scanLines = <<>> /\ scanPath = <<>> /\ scanContext = ""
    /\ idx = 0 /\ exports = <<>> /\ merged = <<>> /\ pc = "idle"
    /\ generators = <<>>
    /\ luaFiles \in { l \in SeqsUpTo(OutputFiles, MaxFiles) :
                        /\ l # <<>>
                        /\ \A i, j \in 1..Len(l) : l[i].path = l[j].path => i = j }
    /\ fileIdx = 0
    /\ dpc = "read"
    /\ scanned = NothingScanned
    /\ totals = NoTotals
    /\ reported = <<>>
    /\ scans = <<>>

\* the test of the early return, after the totals were printed
MainCheck ==
    /\ dpc = "done"
    /\ dpc' = IF NothingFound THEN "exit" ELSE "units"
    /\ UNCHANGED <<aggVars, fnVars, scanVars, generators, luaFiles, fileIdx,
                   scanned, totals, reported, scans>>

\* one iteration of the loop over resourceGenerators: the directory of the
\* unit and the files its generator returns
MainGenerateUnit ==
    /\ dpc = "units"
    /\ Len(log) < Len(generators)
    /\ log' = Append(log, [dir |-> generators[Len(log) + 1].name,
                           files |-> GeneratedFiles(generators[Len(log) + 1])])
    /\ UNCHANGED <<globalStates, playerStates, localPlayerStates, allStates,
                   generated, calls, seen, revisited, keepLog, fnVars, scanVars,
                   drvVars>>

\* after that loop: the _internal directory and the files generate returns,
\* the state file among them
MainGenerateStates ==
    /\ dpc = "units"
    /\ Len(log) = Len(generators)
    /\ IF HasStates
       THEN /\ log' = Append(log, [dir |-> "_internal", files |-> StateBagFiles])
            /\ allStates' = IF StateBagFiles = {} THEN allStates
                            ELSE BuildAllStates(playerStates, localPlayerStates)
            /\ generated' = (StateBagFiles # {})
       ELSE UNCHANGED <<log, allStates, generated>>
    /\ dpc' = "exit"
    /\ UNCHANGED <<globalStates, playerStates, localPlayerStates, calls, seen,
                   revisited, keepLog, fnVars, scanVars, generators, luaFiles,
                   fileIdx, scanned, totals, reported, scans>>

NextOutput == NextMain \/ MainCheck \/ MainGenerateUnit \/ MainGenerateStates

SpecOutput == InitOutput /\ [][NextOutput]_vars

\* the files of the run that did not fail and hold a line of the kind
Holders(IsKind(_)) ==
    { k \in 1..Len(luaFiles) :
        /\ luaFiles[k].fails = "none"
        /\ SelectSeq(luaFiles[k].items, IsKind) # <<>> }

\* the files that did not fail and hold a state write
StateHolders == Holders(IsGlobalItem) \cup Holders(IsPlayerSet) \cup Holders(IsLocalPlayerSet)

\* the directories written so far
WrittenDirs == { log[k].dir : k \in 1..Len(log) }

\* C30: nothing is written before every input file was processed; nothing at
\* all when no export and no state was found; a unit's directory only for a
\* unit one of whose files held an export; and the _internal directory with
\* the state file only when a state entry exists.
C30_OutputsAfterInputs ==
    /\ log # <<>> => fileIdx = Len(luaFiles) /\ dpc \in {"units", "exit"}
    /\ Holders(IsExportItem) = {} /\ StateHolders = {} => log = <<>>
    /\ \A k \in 1..Len(log) :
           /\ log[k].files # {}
           /\ \A j \in 1..Len(log) : log[j].dir = log[k].dir => j = k
           /\ log[k].dir # "_internal" =>
                  \E f \in Holders(IsExportItem) : luaFiles[f].resourceName = log[k].dir
           /\ log[k].dir = "_internal" =>
                  /\ getTotalCount > 0
                  /\ StateHolders # {}
                  /\ log[k].files = {"shared.lua"}

\* a run over a file of r1 with an export and a file of r2 with a state
\* only: the directory of r1 and the state file are written, no directory
\* for r2
C30_Witness ==
    /\ dpc = "exit"
    /\ Len(luaFiles) = 2
    /\ luaFiles[1].resourceName = "r1" /\ luaFiles[2].resourceName = "r2"
    /\ Holders(IsExportItem) = {1}
    /\ StateHolders = {2}
    /\ WrittenDirs = {"r1", "_internal"}

\* a run in which the only file with an export failed: nothing is written
NothingWritten ==
    /\ dpc = "exit"
    /\ Len(reported) = 1
    /\ log = <<>>

====
